---- MODULE Spec2Model ----
(***************************************************************************)
(* Model of the philosophy_panel pipeline.                                 *)
(*                                                                         *)
(*  - Device (src/src/llm_loop.rb:708-1317, the panel firmware): the       *)
(*    three inbound channels (radio characteristic write, network POST,    *)
(*    serial bytes), the live-text buffer and the display sequencer of     *)
(*    loop().  The radio callback runs in the radio stack's task, so the   *)
(*    iteration of loop() is split at the points where that callback can   *)
(*    be observed: channel polling, the pending-signal check and the       *)
(*    state switch.                                                        *)
(*  - Bridge (src/src/llm_loop.rb:75-378, 609-637): the helper process     *)
(*    that owns the radio connection, the caller-side handle that talks    *)
(*    to it over two pipes, the lock around it and the shutdown handler.   *)
(*                                                                         *)
(* Text is a sequence of one-character strings.                            *)
(***************************************************************************)
EXTENDS Integers, Sequences, FiniteSets, TLC

(***************************************************************************)
(* Bounds of the model.                                                    *)
(***************************************************************************)
\* Inbound events (radio writes, serial chunks, POSTs) the environment sends
\* to the device in a run of the sequencer specification.
MaxRx == 2
\* Inbound events in a run of the ingestion specification.
MaxRxIngest == 3
\* The serial accumulator's cap and the tail it keeps, scaled down from
\* 4096 and 2048 bytes (processUSB) so that a run can exceed the cap.
UsbAccumCap == 5
\* Characters of each canned sentence that the model keeps.
MaxCannedChars == 3
UsbAccumKeep == 2
\* Iterations of the generation loop of the background process.
MaxCycles == 3
\* Length of the part of a raw input drawn from all characters.
MaxRawLen == 4
\* Largest width and height of a draw surface, and the largest number of
\* blocks of one, scaled down from the panel so that every order of the
\* blocks can be enumerated.
MaxSide == 8
MaxBlocks == 4
\* Largest block size of the surfaces of few blocks.
MaxBlockSize == 4
\* Largest number of entries of the canned catalog of a build.
MaxCatalog == 3

(***************************************************************************)
(* Program constants of the device.                                        *)
(***************************************************************************)
kNumPhilos == 6
WaitMs == 60000
DissolveMs == 1500
PauseMs == 1000
ThinkMs == 10000
ThinkDelayMs == 30
twDelayMs == 30
TypeDelayMs == 10
DoneDelayMs == 2000

Min(a, b) == IF a <= b THEN a ELSE b

NL == "\n"
NUL == "NUL"

kPhilosophies ==
  << << <<"L","i","f","e"," ","i","s"," "," "," ">>,
        <<"m","o","s","t","l","y"," ","f","o","g">>,
        <<"a","n","d"," ","e","c","h","o","e","s">>,
        <<"o","f"," ","o","l","d"," ","t","e","a">>,
        <<"c","o","o","l","i","n","g"," ","s","o">>,
        <<"a","g","a","i","n"," ","h","m","m",".">> >>,
     << <<"T","r","u","t","h",":"," ","m","e","h">>,
        <<"w","e"," ","n","o","d"," ","n","o","w">>,
        <<"m","e","a","n","i","n","g"," ","i","s">>,
        <<"s","o","f","t"," ","s","o"," ","s","o">>,
        <<"f","o","r"," ","a"," ","b","i","t",".">>,
        <<"t","h","e","n"," ","n","a","p","s",".">> >>,
     << <<"T","i","m","e"," ","h","u","m","s",".">>,
        <<"l","i","k","e"," ","a"," ","f","a","n">>,
        <<"i","n"," ","a"," ","s","m","a","l","l">>,
        <<"w","e"," ","c","a","l","l"," ","i","t">>,
        <<"a","n","d"," ","s","t","a","y","s",".">>,
        <<"s","a","m","e"," ","a","s"," ","m","e">> >>,
     << <<"H","o","p","e"," ","s","h","o","w","s">>,
        <<"t","h","e","n"," ","h","i","d","e","s">>,
        <<"w","e"," ","s","h","r","u","g"," ","a">>,
        <<"l","i","t","t","l","e"," ","b","i","t">>,
        <<"a","n","d"," ","s","i","p"," ","w","e">>,
        <<"a","g","a","i","n"," ","s","u","r","e">> >>,
     << <<"M","e","a","n","i","n","g"," ","i","s">>,
        <<"j","u","s","t"," ","a"," ","m","a","p">>,
        <<"o","f"," ","p","l","a","c","e","s"," ">>,
        <<"w","e"," ","d","r","e","w"," ","o","n">>,
        <<"i","n"," ","t","h","e"," ","f","o","g">>,
        <<"l","a","s","t"," ","n","i","g","h","t">> >>,
     << <<"M","i","n","d"," ","d","r","i","f","t">>,
        <<"o","v","e","r"," ","p","o","o","l","s">>,
        <<"o","f"," ","b","r","i","g","h","t"," ">>,
        <<"d","o","t"," ","w","e"," ","m","a","p">>,
        <<"t","h","e","n"," ","w","e"," ","n","a","p">>,
        <<"b","y"," ","m","o","r","n","i","n","g">> >> >>

(***************************************************************************)
(* Text helpers.                                                           *)
(***************************************************************************)

Contains(s, c) == \E i \in 1..Len(s) : s[i] = c

\* Index of the first occurrence of c in s (1-based), 0 when absent.
IndexOf(s, c) ==
  IF Contains(s, c) THEN CHOOSE i \in 1..Len(s) : s[i] = c /\ \A j \in 1..(i-1) : s[j] # c
  ELSE 0

\* All sequences over S of length lo..hi.
SeqsOf(S, lo, hi) == UNION { [1..n -> S] : n \in lo..hi }

\* std::string::c_str() read back as a C string: the bytes before the first NUL.
CStr(s) == IF Contains(s, NUL) THEN SubSeq(s, 1, IndexOf(s, NUL) - 1) ELSE s

\* The six lines of a canned set joined with single spaces (buildCannedCombined).
RECURSIVE JoinLines(_, _)
JoinLines(lines, l) ==
  IF l > Len(lines) THEN <<>>
  ELSE (IF l > 1 THEN <<" ">> ELSE <<>>) \o lines[l] \o JoinLines(lines, l + 1)

\* Only the first MaxCannedChars characters of each canned sentence are kept,
\* which keeps a canned reveal short.
gCannedText ==
  [i \in 1..kNumPhilos |->
     SubSeq(JoinLines(kPhilosophies[i], 1), 1,
            Min(MaxCannedChars, Len(JoinLines(kPhilosophies[i], 1))))]

(***************************************************************************)
(* State.                                                                  *)
(***************************************************************************)
VARIABLES
  \* ---- device: sequencer (statics of loop()) ----
  state,            \* ScreenState
  tMarkAge,         \* millis() - tMark, saturating at WaitMs
  twIdx,            \* number of characters revealed
  twLastAge,        \* millis() - twLast, saturating at twDelayMs
  currentPhilo,     \* index of the current canned entry, 0..kNumPhilos-1
  loopPc,           \* position of the loop task inside loop()
  \* ---- device: live text and inbound channels ----
  kNewLivePending,
  gLiveText,
  gHasLiveText,
  bleAccum,
  usbAccum,
  serialRx,         \* bytes the UART has received and loop() has not read
  httpReq,          \* a request waiting for server.handleClient(), or None
  httpStatus,       \* status of the last response sent by handlePost, 0 = none
  rxLeft,           \* inbound events the environment may still send
  \* ---- device: history (read by properties only) ----
  hLastPublished,   \* text of the message that completed last
  hUnconsumed,      \* completions since the signal was last consumed
  hConsumed,        \* completions covered by the check of this iteration
  hFrom             \* sequencer state that check found, "none" outside it

devVars == << state, tMarkAge, twIdx, twLastAge, currentPhilo, loopPc,
              kNewLivePending, gLiveText, gHasLiveText, bleAccum, usbAccum,
              serialRx, httpReq, httpStatus, rxLeft,
              hLastPublished, hUnconsumed, hConsumed, hFrom >>

None == [kind |-> "none"]

ScreenStates == { "STATE_WAIT_60S", "STATE_DISSOLVING", "STATE_POST_DISSOLVE_PAUSE",
                  "STATE_THINING", "STATE_TYPEWRITER", "STATE_DONE" }

\* Time passing: both ages grow, each saturating at the largest value it is
\* compared with.
Elapse(age, d, cap) == Min(age + d, cap)

DevInit ==
  /\ state = "STATE_WAIT_60S"
  /\ tMarkAge = 0
  /\ twIdx = 0
  /\ twLastAge = twDelayMs
  /\ currentPhilo \in 0..(kNumPhilos - 1)
  /\ loopPc = "poll"
  /\ kNewLivePending = FALSE
  /\ gLiveText = <<>>
  /\ gHasLiveText = FALSE
  /\ bleAccum = <<>>
  /\ usbAccum = <<>>
  /\ serialRx = <<>>
  /\ httpReq = None
  /\ httpStatus = 0
  /\ hLastPublished = <<>>
  /\ hUnconsumed = 0
  /\ hConsumed = 0
  /\ hFrom = "none"

(***************************************************************************)
(* Bridge: state.                                                          *)
(***************************************************************************)
VARIABLES
  \* ---- background process (caller of the helper) ----
  mainPc,           \* position of the main thread
  mainRet,          \* caller of the running send_ble: "probe" or "cycle"
  payloadEmpty,     \* the payload of the running send_ble is ''
  payload,          \* payload, as main built it last
  cycles,           \* iterations of the generation loop started so far
  mutexHeld,        \* $ble_mutex is locked
  blePersist,       \* $ble_persist is not nil
  connected,        \* @connected
  bleAddress,       \* BLE_ADDRESS of the environment, "None" when unset
  \* ---- pipes ----
  toHelper,         \* command lines written to the helper's stdin, unread
  fromHelper,       \* lines the helper printed on stdout, unread
  pipesOpen,        \* the caller's ends of both pipes are open
  \* ---- helper process ----
  helperPc,         \* position of the helper
  hs,               \* the helper's state dictionary
  hret,             \* caller of the running ensure_connected
  hCmdSeq,          \* number of the command the helper is handling
  \* ---- history (read by properties only) ----
  sentSeq,          \* number of the command the caller sent last
  hWriteAttempts,   \* write_gatt_char calls made for the current command
  hConnectAttempts, \* connect calls made for the current command
  \* ---- background process: generation ----
  genRaw,           \* what ollama_generate returned in this cycle: "none",
                    \* "text", "nontext" (a JSON value that is no string),
                    \* or "failed" when it raised
  \* ---- history (read by properties only) ----
  hGenPaths,        \* generation paths invoked by the running generate call
  hSendCalls,       \* send_ble calls made since the top of the cycle
  hLastError,       \* the error that ended the last failed deliver
  hFault,           \* something went wrong at the helper or at its start
                    \* since the last deliver ended
  \* ---- background process: transport and serial port ----
  transport,        \* TRANSPORT as main uses it: "BLE" or "USB"
  serWire,          \* bytes written to the serial port, not yet at the device
  serHandle,        \* $ser_handle: "nil", "open" or "closed"
  \* ---- history (read by properties only) ----
  hExit             \* what the at_exit block found and did

bridgeVars == << mainPc, mainRet, payloadEmpty, payload, cycles, mutexHeld, blePersist,
                 connected, bleAddress, toHelper, fromHelper, pipesOpen,
                 helperPc, hs, hret, hCmdSeq, sentSeq, hWriteAttempts,
                 hConnectAttempts, genRaw, hGenPaths, hSendCalls, hLastError,
                 hFault, transport, serWire, serHandle, hExit >>

serVars == << transport, serWire, serHandle, hExit >>

genVars == << genRaw, hGenPaths, hSendCalls >>

callerVars == << mainPc, mainRet, payloadEmpty, payload, cycles, mutexHeld, blePersist,
                 connected, bleAddress, sentSeq, genVars, hLastError >>

helperVars == << helperPc, hs, hret, hCmdSeq, hWriteAttempts, hConnectAttempts >>

\* The transports of main that keep a handle open between deliveries.  (The
\* HTTP transport keeps none and is left out.)
Transports == {"BLE", "USB"}

\* The history of at_exit before it ran.  handle: $ble_persist was not nil;
\* closeTried: close was called on it; closeFailed: its close command
\* raised; serOpen: $ser_handle was open when the second block ran;
\* serTried: the second block ran; serFailed: the close of the serial
\* handle raised.
ExitNothing ==
  [handle |-> FALSE, closeTried |-> FALSE, closeFailed |-> FALSE,
   serOpen |-> FALSE,
   serTried |-> FALSE, serFailed |-> FALSE]

\* state = {"client": None, "target": None, "name": None, "address": None,
\*          "rx_char": None}
HelperState0 ==
  [client |-> "None", target |-> "None", name |-> "None", address |-> "None",
   rx_char |-> "None"]

BridgeInit ==
  /\ mainPc = "start"
  /\ mainRet = "none"
  /\ payloadEmpty = TRUE
  /\ payload = <<>>
  /\ cycles = 0
  /\ mutexHeld = FALSE
  /\ blePersist = FALSE
  /\ connected = FALSE
  /\ bleAddress \in {"None", "addr"}
  /\ toHelper = <<>>
  /\ fromHelper = <<>>
  /\ pipesOpen = FALSE
  /\ helperPc = "none"
  /\ hs = HelperState0
  /\ hret = "none"
  /\ hCmdSeq = 0
  /\ sentSeq = 0
  /\ hWriteAttempts = 0
  /\ hConnectAttempts = 0
  /\ genRaw = "none"
  /\ hGenPaths = <<>>
  /\ hSendCalls = 0
  /\ hLastError = [at |-> "none", why |-> "none"]
  /\ hFault = FALSE
  /\ transport \in Transports
  /\ serWire = <<>>
  /\ serHandle = "nil"
  /\ hExit = ExitNothing

\* A command line and a response line.  seq and tag are history: the number
\* of the command, and the number of the command the helper was handling
\* when it printed the line (0 before the first command).
Command(type, seq) == [type |-> type, seq |-> seq]
Line(status, tag) == [status |-> status, tag |-> tag]

(***************************************************************************)
(* Formatter: state of one call of sanitize_and_format.                    *)
(***************************************************************************)
VARIABLES
  fmtPc,            \* "idle": no call; "in": called; "out": returned
  fmtRaw,           \* raw
  fmtMaxTokens,     \* max_tokens
  fmtMaxLines,      \* max_lines
  fmtWidth,         \* width
  fmtOut            \* the value returned

fmtVars == << fmtPc, fmtRaw, fmtMaxTokens, fmtMaxLines, fmtWidth, fmtOut >>

\* No call of the formatter is under way.
FmtIdle ==
  /\ fmtPc = "idle"
  /\ fmtRaw = <<>>
  /\ fmtMaxTokens = 1
  /\ fmtMaxLines = 1
  /\ fmtWidth = 1
  /\ fmtOut = <<>>

(***************************************************************************)
(* Device: the steps inside the blocking cases of loop().                  *)
(***************************************************************************)
VARIABLES
  \* ---- dissolveClearBlocks ----
  dissolvePc,       \* position inside dissolveClearBlocks, "none" outside
  dissolveW,        \* w
  dissolveH,        \* h
  block,            \* block
  idx,              \* the array idx, idx[i + 1] in the model for idx[i]
  shuffleI,         \* i of the shuffle loop
  clearK,           \* k of the clearing loop
  cleared,          \* history: the blocks fillRect was called for, in order
  hAccessed,        \* history: the indices into idx that the last step used
  \* ---- case STATE_DONE ----
  donePc,           \* position inside the case, "none" outside
  prev,             \* prev
  numPhilos,        \* kNumPhilos of the build
  hDrew             \* history: random(kNumPhilos) was called in this case

stepVars == << dissolvePc, dissolveW, dissolveH, block, idx, shuffleI, clearK,
               cleared, hAccessed, donePc, prev, numPhilos, hDrew >>

\* block, as the case passes it
DissolveBlock == 4

\* The loop task is inside neither case.
StepIdle ==
  /\ dissolvePc = "none"
  /\ dissolveW = 0
  /\ dissolveH = 0
  /\ block = DissolveBlock
  /\ hAccessed = {}
  /\ idx = <<>>
  /\ shuffleI = 0
  /\ clearK = 0
  /\ cleared = <<>>
  /\ donePc = "none"
  /\ prev = 0
  /\ numPhilos = kNumPhilos
  /\ hDrew = FALSE

(***************************************************************************)
(* Inbound channels.                                                       *)
(***************************************************************************)
\* A radio callback that keeps the text of a signal not yet consumed.
OnWriteKeepsFirst(v) ==
  /\ UNCHANGED << bridgeVars, fmtVars, stepVars >>
  /\ rxLeft > 0
  /\ rxLeft' = rxLeft - 1
  /\ IF v = <<>>
       THEN UNCHANGED << bleAccum, gLiveText, gHasLiveText, kNewLivePending,
                         hLastPublished, hUnconsumed >>
       ELSE LET acc == bleAccum \o v
            IN IF Contains(acc, NL)
                 THEN /\ gLiveText' = IF kNewLivePending THEN gLiveText ELSE CStr(acc)
                      /\ gHasLiveText' = TRUE
                      /\ kNewLivePending' = TRUE
                      /\ bleAccum' = <<>>
                      /\ hLastPublished' = CStr(acc)
                      /\ hUnconsumed' = hUnconsumed + 1
                 ELSE /\ bleAccum' = acc
                      /\ UNCHANGED << gLiveText, gHasLiveText, kNewLivePending,
                                      hLastPublished, hUnconsumed >>
  /\ UNCHANGED << state, tMarkAge, twIdx, twLastAge, currentPhilo, loopPc,
                  usbAccum, serialRx, httpReq, httpStatus, hConsumed, hFrom >>

\* RxCallbacks::onWrite: runs in the radio stack's task for every write to
\* the RX characteristic.
OnWrite(v) ==
  /\ UNCHANGED << bridgeVars, fmtVars, stepVars >>
  /\ rxLeft > 0
  /\ rxLeft' = rxLeft - 1
  /\ IF v = <<>>
       THEN UNCHANGED << bleAccum, gLiveText, gHasLiveText, kNewLivePending,
                         hLastPublished, hUnconsumed >>
       ELSE LET acc == bleAccum \o v
            IN IF Contains(acc, NL)
                 THEN /\ gLiveText' = CStr(acc)
                      /\ gHasLiveText' = TRUE
                      /\ kNewLivePending' = TRUE
                      /\ bleAccum' = <<>>
                      /\ hLastPublished' = CStr(acc)
                      /\ hUnconsumed' = hUnconsumed + 1
                 ELSE /\ bleAccum' = acc
                      /\ UNCHANGED << gLiveText, gHasLiveText, kNewLivePending,
                                      hLastPublished, hUnconsumed >>
  /\ UNCHANGED << state, tMarkAge, twIdx, twLastAge, currentPhilo, loopPc,
                  usbAccum, serialRx, httpReq, httpStatus, hConsumed, hFrom >>

\* The UART receives a burst of bytes (Serial.available() becomes true).
\* The serial link: the next n bytes written by the background process
\* reach the UART of the device.
WireDeliver(n) ==
  /\ n \in 1..Len(serWire)
  /\ serialRx' = serialRx \o SubSeq(serWire, 1, n)
  /\ serWire' = SubSeq(serWire, n + 1, Len(serWire))
  /\ UNCHANGED << state, tMarkAge, twIdx, twLastAge, currentPhilo, loopPc,
                  kNewLivePending, gLiveText, gHasLiveText, bleAccum, usbAccum,
                  httpReq, httpStatus, rxLeft, hLastPublished, hUnconsumed,
                  hConsumed, hFrom >>
  /\ UNCHANGED << mainPc, mainRet, payloadEmpty, payload, cycles, mutexHeld,
                  blePersist, connected, bleAddress, toHelper, fromHelper,
                  pipesOpen, helperVars, sentSeq, genVars, hLastError, hFault,
                  transport, serHandle, hExit, fmtVars, stepVars >>

SerialArrive(chunk) ==
  /\ UNCHANGED << bridgeVars, fmtVars, stepVars >>
  /\ rxLeft > 0
  /\ rxLeft' = rxLeft - 1
  /\ serialRx' = serialRx \o chunk
  /\ UNCHANGED << state, tMarkAge, twIdx, twLastAge, currentPhilo, loopPc,
                  kNewLivePending, gLiveText, gHasLiveText, bleAccum, usbAccum,
                  httpReq, httpStatus, hLastPublished, hUnconsumed, hConsumed, hFrom >>

\* A client POSTs to /post; the request waits for server.handleClient().
HttpArrive(req) ==
  /\ UNCHANGED << bridgeVars, fmtVars, stepVars >>
  /\ rxLeft > 0
  /\ httpReq = None
  /\ rxLeft' = rxLeft - 1
  /\ httpReq' = req
  /\ UNCHANGED << state, tMarkAge, twIdx, twLastAge, currentPhilo, loopPc,
                  kNewLivePending, gLiveText, gHasLiveText, bleAccum, usbAccum,
                  serialRx, httpStatus, hLastPublished, hUnconsumed, hConsumed, hFrom >>

\* A handlePost that takes the body of every request.
handlePostAcceptsAll(req, live) ==
  [text |-> req.body, has |-> TRUE, pending |-> TRUE, status |-> 200,
   published |-> live.published + 1, last |-> req.body]

\* handlePost on a request: the live text, flags and response status it leaves.
handlePost(req, live) ==
  IF ~req.hasPlain
    THEN [live EXCEPT !.status = 400]
    ELSE [text |-> req.body, has |-> TRUE, pending |-> TRUE, status |-> 200,
          published |-> live.published + 1, last |-> req.body]

\* The read loop of processUSB: every available byte is appended, and the
\* accumulator is cut back to its tail whenever it grows past the cap.
RECURSIVE UsbAppend(_, _)
UsbAppend(acc, bytes) ==
  IF bytes = <<>> THEN acc
  ELSE LET a1 == Append(acc, Head(bytes))
           a2 == IF Len(a1) > UsbAccumCap
                   THEN SubSeq(a1, Len(a1) - UsbAccumKeep + 1, Len(a1))
                   ELSE a1
       IN UsbAppend(a2, Tail(bytes))

\* processUSB after the read loop: completion check on the accumulator.
processUSB(acc, live) ==
  IF IndexOf(acc, NL) # 0
    THEN [acc |-> <<>>,
          live |-> [live EXCEPT !.text = acc, !.has = TRUE, !.pending = TRUE,
                                !.published = live.published + 1, !.last = acc]]
    ELSE [acc |-> acc, live |-> live]

(***************************************************************************)
(* loop(): one iteration is poll, check, switch.                           *)
(***************************************************************************)
\* A poll that reads the serial channel before the network channel.
LoopPollSerialFirst ==
  /\ UNCHANGED << bridgeVars, fmtVars, stepVars >>
  /\ loopPc = "poll"
  /\ LET live0 == [text |-> gLiveText, has |-> gHasLiveText,
                   pending |-> kNewLivePending, status |-> httpStatus,
                   published |-> hUnconsumed, last |-> hLastPublished]
         r     == processUSB(UsbAppend(usbAccum, serialRx), live0)
         live2 == IF httpReq = None THEN r.live ELSE handlePost(httpReq, r.live)
     IN /\ usbAccum' = r.acc
        /\ gLiveText' = live2.text
        /\ gHasLiveText' = live2.has
        /\ kNewLivePending' = live2.pending
        /\ httpStatus' = live2.status
        /\ hUnconsumed' = live2.published
        /\ hLastPublished' = live2.last
  /\ httpReq' = None
  /\ serialRx' = <<>>
  /\ loopPc' = "check"
  /\ UNCHANGED << state, tMarkAge, twIdx, twLastAge, currentPhilo, bleAccum,
                  rxLeft, hConsumed, hFrom >>

\* Top of loop(): server.handleClient(), processUSB(), processBluetooth()
\* (which polls nothing), in this order.
LoopPoll ==
  /\ UNCHANGED << bridgeVars, fmtVars, stepVars >>
  /\ loopPc = "poll"
  /\ LET live0 == [text |-> gLiveText, has |-> gHasLiveText,
                   pending |-> kNewLivePending, status |-> httpStatus,
                   published |-> hUnconsumed, last |-> hLastPublished]
         live1 == IF httpReq = None THEN live0 ELSE handlePost(httpReq, live0)
         r     == processUSB(UsbAppend(usbAccum, serialRx), live1)
     IN /\ usbAccum' = r.acc
        /\ gLiveText' = r.live.text
        /\ gHasLiveText' = r.live.has
        /\ kNewLivePending' = r.live.pending
        /\ httpStatus' = r.live.status
        /\ hUnconsumed' = r.live.published
        /\ hLastPublished' = r.live.last
  /\ httpReq' = None
  /\ serialRx' = <<>>
  /\ loopPc' = "check"
  /\ UNCHANGED << state, tMarkAge, twIdx, twLastAge, currentPhilo, bleAccum,
                  rxLeft, hConsumed, hFrom >>

\* A check that lets the signal pre-empt the idle state only.
LoopCheckIdleOnly ==
  /\ UNCHANGED << bridgeVars, fmtVars, stepVars >>
  /\ loopPc = "check"
  /\ IF kNewLivePending /\ state = "STATE_WAIT_60S"
       THEN /\ kNewLivePending' = FALSE
            /\ tMarkAge' = 0
            /\ state' = "STATE_DISSOLVING"
            /\ hConsumed' = hUnconsumed
            /\ hUnconsumed' = 0
       ELSE /\ hConsumed' = 0
            /\ UNCHANGED << kNewLivePending, tMarkAge, state, hUnconsumed >>
  /\ hFrom' = state
  /\ loopPc' = "switch"
  /\ UNCHANGED << twIdx, twLastAge, currentPhilo, gLiveText, gHasLiveText,
                  bleAccum, usbAccum, serialRx, httpReq, httpStatus, rxLeft,
                  hLastPublished >>

\* "if (kNewLivePending) { ... }" before the switch.
LoopCheck ==
  /\ UNCHANGED << bridgeVars, fmtVars, stepVars >>
  /\ loopPc = "check"
  /\ IF kNewLivePending
       THEN /\ kNewLivePending' = FALSE
            /\ tMarkAge' = 0
            /\ state' = "STATE_DISSOLVING"
            /\ hConsumed' = hUnconsumed
            /\ hUnconsumed' = 0
       ELSE /\ hConsumed' = 0
            /\ UNCHANGED << kNewLivePending, tMarkAge, state, hUnconsumed >>
  /\ hFrom' = state
  /\ loopPc' = "switch"
  /\ UNCHANGED << twIdx, twLastAge, currentPhilo, gLiveText, gHasLiveText,
                  bleAccum, usbAccum, serialRx, httpReq, httpStatus, rxLeft,
                  hLastPublished >>

\* The text the typewriter reveals.
TypewriterSrc == IF gHasLiveText THEN gLiveText ELSE gCannedText[currentPhilo + 1]

\* case STATE_WAIT_60S
CaseWait60s ==
  /\ state' = IF tMarkAge >= WaitMs THEN "STATE_DISSOLVING" ELSE state
  /\ UNCHANGED << tMarkAge, twIdx, twLastAge, currentPhilo, gHasLiveText >>

\* case STATE_DISSOLVING: the blocking dissolve, then tMark = millis().
CaseDissolving ==
  /\ tMarkAge' = 0
  /\ twLastAge' = Elapse(twLastAge, DissolveMs, twDelayMs)
  /\ state' = "STATE_POST_DISSOLVE_PAUSE"
  /\ UNCHANGED << twIdx, currentPhilo, gHasLiveText >>

\* A pause case that leaves without waiting for its dwell.
CasePostDissolvePauseNoDwell ==
  /\ tMarkAge' = 0
  /\ state' = "STATE_THINING"
  /\ UNCHANGED << twIdx, twLastAge, currentPhilo, gHasLiveText >>

\* case STATE_POST_DISSOLVE_PAUSE
CasePostDissolvePause ==
  /\ IF tMarkAge >= PauseMs
       THEN tMarkAge' = 0 /\ state' = "STATE_THINING"
       ELSE UNCHANGED << tMarkAge, state >>
  /\ UNCHANGED << twIdx, twLastAge, currentPhilo, gHasLiveText >>

\* case STATE_THINING: twLast = 0 makes the first reveal due at once; the
\* case ends with delay(30).
CaseThining ==
  /\ IF tMarkAge >= ThinkMs
       THEN /\ twIdx' = 0
            /\ twLastAge' = twDelayMs
            /\ state' = "STATE_TYPEWRITER"
       ELSE /\ twLastAge' = Elapse(twLastAge, ThinkDelayMs, twDelayMs)
            /\ UNCHANGED << twIdx, state >>
  /\ tMarkAge' = Elapse(tMarkAge, ThinkDelayMs, WaitMs)
  /\ UNCHANGED << currentPhilo, gHasLiveText >>

\* A typewriter that reveals the canned entry whatever the has-live flag says.
CaseTypewriterCannedOnly ==
  /\ IF twLastAge >= twDelayMs
       THEN /\ twLastAge' = Elapse(0, TypeDelayMs, twDelayMs)
            /\ IF twIdx < Len(gCannedText[currentPhilo + 1])
                 THEN twIdx' = twIdx + 1 /\ UNCHANGED state
                 ELSE state' = "STATE_DONE" /\ UNCHANGED twIdx
       ELSE /\ twLastAge' = Elapse(twLastAge, TypeDelayMs, twDelayMs)
            /\ UNCHANGED << twIdx, state >>
  /\ tMarkAge' = Elapse(tMarkAge, TypeDelayMs, WaitMs)
  /\ UNCHANGED << currentPhilo, gHasLiveText >>

\* case STATE_TYPEWRITER: one more character when the reveal is due; the
\* case ends with delay(10).
CaseTypewriter ==
  /\ IF twLastAge >= twDelayMs
       THEN /\ twLastAge' = Elapse(0, TypeDelayMs, twDelayMs)
            /\ IF twIdx < Len(TypewriterSrc)
                 THEN twIdx' = twIdx + 1 /\ UNCHANGED state
                 ELSE state' = "STATE_DONE" /\ UNCHANGED twIdx
       ELSE /\ twLastAge' = Elapse(twLastAge, TypeDelayMs, twDelayMs)
            /\ UNCHANGED << twIdx, state >>
  /\ tMarkAge' = Elapse(tMarkAge, TypeDelayMs, WaitMs)
  /\ UNCHANGED << currentPhilo, gHasLiveText >>

\* A done case that keeps the has-live flag.
CaseDoneKeepsLive ==
  /\ currentPhilo' \in (0..(kNumPhilos - 1)) \ {currentPhilo}
  /\ tMarkAge' = 0
  /\ twLastAge' = Elapse(twLastAge, DoneDelayMs, twDelayMs)
  /\ state' = "STATE_WAIT_60S"
  /\ UNCHANGED << twIdx, gHasLiveText >>

\* case STATE_DONE: delay(2000), a canned entry other than the previous one,
\* the has-live flag cleared.
CaseDone ==
  /\ currentPhilo' \in (0..(kNumPhilos - 1)) \ {currentPhilo}
  /\ gHasLiveText' = FALSE
  /\ tMarkAge' = 0
  /\ twLastAge' = Elapse(twLastAge, DoneDelayMs, twDelayMs)
  /\ state' = "STATE_WAIT_60S"
  /\ UNCHANGED twIdx

\* switch (state) { ... }: the case of the current state.
LoopSwitch ==
  /\ UNCHANGED << bridgeVars, fmtVars, stepVars >>
  /\ loopPc = "switch"
  /\ loopPc' = "poll"
  /\ CASE state = "STATE_WAIT_60S" -> CaseWait60s
       [] state = "STATE_DISSOLVING" -> CaseDissolving
       [] state = "STATE_POST_DISSOLVE_PAUSE" -> CasePostDissolvePause
       [] state = "STATE_THINING" -> CaseThining
       [] state = "STATE_TYPEWRITER" -> CaseTypewriter
       [] state = "STATE_DONE" -> CaseDone
  /\ hConsumed' = 0
  /\ hFrom' = "none"
  /\ UNCHANGED << kNewLivePending, gLiveText, bleAccum, usbAccum, serialRx,
                  httpReq, httpStatus, rxLeft, hLastPublished, hUnconsumed >>

\* Wall-clock time passes while the device does nothing else.
Tick(d) ==
  /\ UNCHANGED << bridgeVars, fmtVars, stepVars >>
  /\ tMarkAge' = Elapse(tMarkAge, d, WaitMs)
  /\ twLastAge' = Elapse(twLastAge, d, twDelayMs)
  /\ UNCHANGED << state, twIdx, currentPhilo, loopPc, kNewLivePending, gLiveText,
                  gHasLiveText, bleAccum, usbAccum, serialRx, httpReq, httpStatus,
                  rxLeft, hLastPublished, hUnconsumed, hConsumed, hFrom >>

(***************************************************************************)
(* Device: dissolveClearBlocks, step by step.                              *)
(***************************************************************************)
\* nx and ny: (w + block - 1) / block, a uint16_t
BlocksAlong(side, b) == ((side + b - 1) \div b) % 65536

\* N = (uint32_t)nx * (uint32_t)ny: the product of two uint16_t fits
NumBlocks(w, h, b) == BlocksAlong(w, b) * BlocksAlong(h, b)

\* N of the running call
DissolveN == NumBlocks(dissolveW, dissolveH, block)

\* for (i = 0; i < N; ++i) idx[i] = (uint16_t)i
IdentityIdx(n) == [i \in 1..n |-> (i - 1) % 65536]

\* t = idx[i]; idx[i] = idx[j]; idx[j] = t
SwapIdx(a, i, j) == [a EXCEPT ![i + 1] = a[j + 1], ![j + 1] = a[i + 1]]

\* A uint32_t is held as its 32 bits: 4294967295, which is 0 - 1, is the
\* bits of -1.  i > 0 of a uint32_t is true of every value but 0.
GreaterThanZero(u) == u # 0

\* The values random(i + 1) is taken to return: each of 0..i on a surface of
\* few blocks; on a surface of many blocks only i, which leaves the order as
\* it is (the orders of many blocks cannot be enumerated).
RandomDraws(i) == IF DissolveN <= MaxBlocks THEN 0..i ELSE {i}

\* The conversion of an int to int16_t and to uint16_t keeps the low 16 bits.
ToInt16(v) == ((v + 32768) % 65536) - 32768
ToUInt16(v) == v % 65536

\* The rectangle that the clearing loop passes to fillRect for the block p:
\* bx, by, bw and bh.
BlockRect(p) ==
  LET nx == BlocksAlong(dissolveW, block)
      bx == ToInt16((p % nx) * block)
      by == ToInt16((p \div nx) * block)
      bw == ToUInt16(IF bx + block > dissolveW THEN dissolveW - bx ELSE block)
      bh == ToUInt16(IF by + block > dissolveH THEN dissolveH - by ELSE block)
  IN [x |-> bx, y |-> by, w |-> bw, h |-> bh]

\* The loop task leaves loop(): the iteration is over.
EndOfIteration ==
  /\ loopPc' = "poll"
  /\ hConsumed' = 0
  /\ hFrom' = "none"
  /\ UNCHANGED << kNewLivePending, gLiveText, bleAccum, usbAccum, serialRx,
                  httpReq, httpStatus, rxLeft, hLastPublished, hUnconsumed >>

\* The loop task stays inside the case.
InsideCase ==
  UNCHANGED << state, tMarkAge, twIdx, twLastAge, loopPc, kNewLivePending,
               gLiveText, bleAccum, usbAccum, serialRx, httpReq, httpStatus,
               rxLeft, hLastPublished, hUnconsumed, hConsumed, hFrom >>

\* case STATE_DISSOLVING calls dissolveClearBlocks: nx, ny and N are
\* computed and idx is allocated.  malloc returns a buffer, which the first
\* loop fills, or NULL, and then the function returns at once; malloc(0) may
\* return either.  The shuffle loop starts at i = N - 1, a uint32_t.
DissolveBegin ==
  /\ loopPc = "switch"
  /\ state = "STATE_DISSOLVING"
  /\ dissolvePc = "none"
  /\ \E allocated \in BOOLEAN :
       IF allocated
         THEN /\ idx' = IdentityIdx(DissolveN)
              /\ hAccessed' = 0..(DissolveN - 1)
              /\ shuffleI' = DissolveN - 1
              /\ dissolvePc' = IF GreaterThanZero(DissolveN - 1) THEN "shuffle"
                               ELSE "clear"
         ELSE /\ dissolvePc' = "returned"
              /\ hAccessed' = {}
              /\ UNCHANGED << idx, shuffleI >>
  /\ clearK' = 0
  /\ cleared' = <<>>
  /\ InsideCase
  /\ UNCHANGED << currentPhilo, gHasLiveText, dissolveW, dissolveH, block, donePc,
                  prev, numPhilos, hDrew, bridgeVars, fmtVars >>

\* One round of the Fisher-Yates loop: j = random(i + 1), swap, --i.
DissolveShuffle(j) ==
  /\ dissolvePc = "shuffle"
  /\ shuffleI \in 0..(DissolveN - 1)
  /\ j \in RandomDraws(shuffleI)
  /\ idx' = SwapIdx(idx, shuffleI, j)
  /\ hAccessed' = { shuffleI, j }
  /\ shuffleI' = shuffleI - 1
  /\ dissolvePc' = IF GreaterThanZero(shuffleI - 1) THEN "shuffle" ELSE "clear"
  /\ InsideCase
  /\ UNCHANGED << currentPhilo, gHasLiveText, dissolveW, dissolveH, block, clearK,
                  cleared, donePc, prev, numPhilos, hDrew, bridgeVars, fmtVars >>

\* A round of the Fisher-Yates loop whose i is no element of idx: with N = 0
\* the loop starts at i = 4294967295, j = random(0) is 0, and idx[i] and
\* idx[0] are read and written outside the buffer of no elements.  The
\* behaviour is undefined: either the access faults and the device resets,
\* or the loop runs on through memory that is not the buffer's until i is 0,
\* the clearing loop then makes no round, and the function returns.
DissolveOverrun ==
  /\ dissolvePc = "shuffle"
  /\ shuffleI \notin 0..(DissolveN - 1)
  /\ hAccessed' = { shuffleI, 0 }
  /\ \E faults \in BOOLEAN :
       IF faults
         THEN dissolvePc' = "crashed" /\ UNCHANGED shuffleI
         ELSE dissolvePc' = "returned" /\ shuffleI' = 0
  /\ InsideCase
  /\ UNCHANGED << currentPhilo, gHasLiveText, dissolveW, dissolveH, block, idx,
                  clearK, cleared, donePc, prev, numPhilos, hDrew, bridgeVars,
                  fmtVars >>

\* One round of the clearing loop: fillRect on the block idx[k], a delay,
\* ++k; after the last round idx is freed and the function returns.
DissolveClear ==
  /\ dissolvePc = "clear"
  /\ clearK < DissolveN
  /\ cleared' = Append(cleared, idx[clearK + 1])
  /\ hAccessed' = { clearK }
  /\ clearK' = clearK + 1
  /\ dissolvePc' = IF clearK + 1 < DissolveN THEN "clear" ELSE "returned"
  /\ InsideCase
  /\ UNCHANGED << currentPhilo, gHasLiveText, dissolveW, dissolveH, block, idx,
                  shuffleI, donePc, prev, numPhilos, hDrew, bridgeVars, fmtVars >>

\* dissolveClearBlocks returned: tMark = millis(), the state changes and the
\* iteration ends.  The clearing loop took the time of the dissolve.
DissolveEnd ==
  /\ dissolvePc = "returned"
  /\ tMarkAge' = 0
  /\ twLastAge' = IF clearK > 0 THEN Elapse(twLastAge, DissolveMs, twDelayMs)
                   ELSE twLastAge
  /\ state' = "STATE_POST_DISSOLVE_PAUSE"
  /\ dissolvePc' = "none"
  /\ hAccessed' = {}
  /\ EndOfIteration
  /\ UNCHANGED << twIdx, currentPhilo, gHasLiveText, dissolveW, dissolveH, block,
                  idx, shuffleI, clearK, cleared, donePc, prev, numPhilos, hDrew,
                  bridgeVars, fmtVars >>

(***************************************************************************)
(* Device: case STATE_DONE, step by step.                                  *)
(***************************************************************************)
\* A case that draws whatever the number of entries is.
DoneDelayDrawsAlways ==
  /\ loopPc = "switch"
  /\ state = "STATE_DONE"
  /\ donePc = "none"
  /\ tMarkAge' = Elapse(tMarkAge, DoneDelayMs, WaitMs)
  /\ twLastAge' = Elapse(twLastAge, DoneDelayMs, twDelayMs)
  /\ prev' = currentPhilo
  /\ hDrew' = FALSE
  /\ donePc' = "draw"
  /\ UNCHANGED << state, twIdx, currentPhilo, loopPc, kNewLivePending, gLiveText,
                  gHasLiveText, bleAccum, usbAccum, serialRx, httpReq, httpStatus,
                  rxLeft, hLastPublished, hUnconsumed, hConsumed, hFrom,
                  dissolvePc, dissolveW, dissolveH, block, idx, shuffleI, clearK, cleared, hAccessed,
                  numPhilos, bridgeVars, fmtVars >>

\* delay(2000); prev = currentPhilo; if (kNumPhilos > 1)
DoneDelay ==
  /\ loopPc = "switch"
  /\ state = "STATE_DONE"
  /\ donePc = "none"
  /\ tMarkAge' = Elapse(tMarkAge, DoneDelayMs, WaitMs)
  /\ twLastAge' = Elapse(twLastAge, DoneDelayMs, twDelayMs)
  /\ prev' = currentPhilo
  /\ hDrew' = FALSE
  /\ donePc' = IF numPhilos > 1 THEN "draw" ELSE "finish"
  /\ UNCHANGED << state, twIdx, currentPhilo, loopPc, kNewLivePending, gLiveText,
                  gHasLiveText, bleAccum, usbAccum, serialRx, httpReq, httpStatus,
                  rxLeft, hLastPublished, hUnconsumed, hConsumed, hFrom,
                  dissolvePc, dissolveW, dissolveH, block, idx, shuffleI, clearK, cleared, hAccessed,
                  numPhilos, bridgeVars, fmtVars >>

\* do { currentPhilo = random(kNumPhilos); } while (currentPhilo == prev)
DoneDraw(r) ==
  /\ donePc = "draw"
  /\ r \in 0..(numPhilos - 1)
  /\ currentPhilo' = r
  /\ hDrew' = TRUE
  /\ donePc' = IF r = prev THEN "draw" ELSE "finish"
  /\ InsideCase
  /\ UNCHANGED << gHasLiveText, dissolvePc, dissolveW, dissolveH, block, idx, shuffleI,
                  clearK, cleared, hAccessed, prev, numPhilos, bridgeVars, fmtVars >>

\* gHasLiveText = false; tMark = millis(); state = STATE_WAIT_60S
DoneFinish ==
  /\ donePc = "finish"
  /\ gHasLiveText' = FALSE
  /\ tMarkAge' = 0
  /\ state' = "STATE_WAIT_60S"
  /\ donePc' = "none"
  /\ EndOfIteration
  /\ UNCHANGED << twIdx, twLastAge, currentPhilo, dissolvePc, dissolveW, dissolveH, block,
                  idx, shuffleI, clearK, cleared, hAccessed, prev, numPhilos, hDrew,
                  bridgeVars, fmtVars >>

(***************************************************************************)
(* Bridge: the helper process (PYTHON_BLE_BRIDGE).                         *)
(***************************************************************************)
HelperBusyPcs == { "ec_entry", "ec_discover1", "ec_connect1", "ec_discover2",
                   "ec_connect2", "ec_check", "w_write1", "w_write2", "hung" }

\* The helper moves on inside a command.
HGoto(pc2, hs2, ret2) ==
  /\ helperPc' = pc2
  /\ hs' = hs2
  /\ hret' = ret2
  /\ UNCHANGED << fromHelper, hFault >>

\* The helper prints lines and returns to "for line in sys.stdin"; printing
\* to a pipe whose read end is closed ends the process.
HOut(hs2, out) ==
  /\ hs' = hs2
  /\ hret' = "none"
  /\ IF pipesOpen
       THEN helperPc' = "idle" /\ fromHelper' = fromHelper \o out
       ELSE helperPc' = "exited" /\ UNCHANGED fromHelper

\* handle_command returned: the ok response.
HReply(hs2, out) == HOut(hs2, out) /\ UNCHANGED hFault

\* An exception reaches the main loop: the lines printed before it, then the
\* error response.
HRaise(hs2, before) ==
  /\ HOut(hs2, before \o << Line("error", hCmdSeq) >>)
  /\ hFault' = TRUE

\* ensure_connected returns to handle_command (connect) or to write_payload.
HReturn(hs2) ==
  CASE hret = "connect" -> HReply(hs2, << Line("ok", hCmdSeq) >>)
    [] hret = "write1"  -> HGoto("w_write1", hs2, hret)
    [] hret = "write2"  -> HGoto("w_write2", hs2, hret)

\* The import of bleak at start-up: on failure one error line, then exit.
HelperBoot ==
  /\ helperPc = "boot"
  /\ \E bleakOk \in BOOLEAN :
       /\ IF bleakOk
            THEN helperPc' = "idle" /\ UNCHANGED fromHelper
            ELSE /\ helperPc' = "exited"
                 /\ fromHelper' = IF pipesOpen
                                    THEN Append(fromHelper, Line("error", 0))
                                    ELSE fromHelper
       /\ hFault' = (hFault \/ ~bleakOk)
  /\ UNCHANGED << hs, hret, hCmdSeq, hWriteAttempts, hConnectAttempts, toHelper,
                  pipesOpen, callerVars, devVars, stepVars, fmtVars, serVars >>

\* The main loop reads one command line and dispatches it (handle_command).
HelperCommand ==
  /\ helperPc = "idle"
  /\ toHelper # <<>>
  /\ LET cmd == Head(toHelper)
     IN /\ toHelper' = Tail(toHelper)
        /\ hCmdSeq' = cmd.seq
        /\ hWriteAttempts' = 0
        /\ hConnectAttempts' = 0
        /\ CASE cmd.type = "config" ->
                  LET hs2 == [hs EXCEPT !.name = cmd.name, !.address = cmd.address,
                                        !.target = IF cmd.address # "None"
                                                     THEN cmd.address ELSE @]
                  IN HReply(hs2, << Line("ok", cmd.seq) >>)
             [] cmd.type = "connect" -> HGoto("ec_entry", hs, "connect")
             [] cmd.type = "write" -> HGoto("ec_entry", hs, "write1")
             [] cmd.type = "close" ->
                  \* close_client, the ok response, break, close_client, exit
                  /\ hs' = [hs EXCEPT !.client = "None", !.rx_char = "None"]
                  /\ hret' = "none"
                  /\ helperPc' = "exited"
                  /\ fromHelper' = IF pipesOpen
                                     THEN Append(fromHelper, Line("ok", cmd.seq))
                                     ELSE fromHelper
                  /\ UNCHANGED hFault
  /\ UNCHANGED << pipesOpen, callerVars, devVars, stepVars, fmtVars, serVars >>

\* End of input on stdin: the loop ends, close_client, exit.
HelperEof ==
  /\ helperPc = "idle"
  /\ toHelper = <<>>
  /\ ~pipesOpen
  /\ helperPc' = "exited"
  /\ hs' = [hs EXCEPT !.client = "None", !.rx_char = "None"]
  /\ UNCHANGED << hret, hCmdSeq, hWriteAttempts, hConnectAttempts, toHelper,
                  fromHelper, pipesOpen, hFault, callerVars, devVars, stepVars, fmtVars, serVars >>

\* The helper process ends without a response: it is killed, or an exception
\* that is no Exception (asyncio.CancelledError, KeyboardInterrupt,
\* SystemExit) passes the except clauses of the main loop.
HelperDie ==
  /\ helperPc \in {"boot", "idle"} \cup HelperBusyPcs
  /\ helperPc' = "exited"
  /\ hFault' = TRUE
  /\ UNCHANGED << hs, hret, hCmdSeq, hWriteAttempts, hConnectAttempts, toHelper,
                  fromHelper, pipesOpen, callerVars, devVars, stepVars, fmtVars, serVars >>

\* ensure_connected, up to the decision to reuse the cached client.
HelperEcEntry ==
  /\ helperPc = "ec_entry"
  /\ IF hs.client # "None"
       THEN \E isConnected \in BOOLEAN :
              IF isConnected
                THEN IF hs.rx_char = "None"
                       THEN \E rx \in {"None", "rx"} : HReturn([hs EXCEPT !.rx_char = rx])
                       ELSE HReturn(hs)
                ELSE HGoto("ec_discover1", hs, hret)
       ELSE HGoto("ec_discover1", hs, hret)
  /\ UNCHANGED << hCmdSeq, hWriteAttempts, hConnectAttempts, toHelper, pipesOpen,
                  callerVars, devVars, stepVars, fmtVars, serVars >>

\* discover_target, called first (k = 1) and after a failed connection (k = 2).
HelperDiscover(k) ==
  /\ helperPc = (IF k = 1 THEN "ec_discover1" ELSE "ec_discover2")
  /\ LET next == IF k = 1 THEN "ec_connect1" ELSE "ec_connect2"
     IN IF hs.target # "None"
          THEN HGoto(next, hs, hret)
          ELSE IF hs.address # "None"
                 THEN HGoto(next, [hs EXCEPT !.target = hs.address], hret)
                 ELSE \E scan \in {"found", "notfound", "scanfail"} :
                        CASE scan = "found" ->
                               HGoto(next, [hs EXCEPT !.target = "dev"], hret)
                          [] scan = "notfound" ->
                               HRaise(hs, << Line("debug", hCmdSeq) >>)
                          [] scan = "scanfail" ->
                               HRaise(hs, <<>>)
  /\ UNCHANGED << hCmdSeq, hWriteAttempts, hConnectAttempts, toHelper, pipesOpen,
                  callerVars, devVars, stepVars, fmtVars, serVars >>

\* BleakClient(target).connect() and get_services(): the first attempt
\* (k = 1) falls back to a re-discovery, the second raises.
HelperConnect(k) ==
  /\ helperPc = (IF k = 1 THEN "ec_connect1" ELSE "ec_connect2")
  /\ hConnectAttempts' = hConnectAttempts + 1
  /\ \E ok \in BOOLEAN :
       IF ok THEN HGoto("ec_check", hs, hret)
       ELSE IF k = 1 THEN HGoto("ec_discover2", [hs EXCEPT !.target = "None"], hret)
       ELSE HRaise(hs, <<>>)
  /\ UNCHANGED << hCmdSeq, hWriteAttempts, toHelper, pipesOpen, callerVars, devVars, stepVars, fmtVars, serVars >>

\* The end of ensure_connected: is_connected, the RX characteristic, and the
\* client and the handle cached in state.
HelperEcCheck ==
  /\ helperPc = "ec_check"
  /\ \E res \in {"ok", "notconnected", "norx"} :
       IF res = "ok"
         THEN HReturn([hs EXCEPT !.client = "cli", !.rx_char = "rx"])
         ELSE HRaise(hs, <<>>)
  /\ UNCHANGED << hCmdSeq, hWriteAttempts, hConnectAttempts, toHelper, pipesOpen,
                  callerVars, devVars, stepVars, fmtVars, serVars >>

\* A write_payload that reconnects and writes again after every failed write.
HelperWriteRetriesForever(k) ==
  /\ helperPc = (IF k = 1 THEN "w_write1" ELSE "w_write2")
  /\ hs.rx_char # "None"
  /\ hWriteAttempts' = hWriteAttempts + 1
  /\ \E ok \in BOOLEAN :
       IF ok THEN HReply(hs, << Line("ok", hCmdSeq) >>)
       ELSE HGoto("ec_entry", [hs EXCEPT !.client = "None", !.rx_char = "None"],
                  "write2")
  /\ UNCHANGED << hCmdSeq, hConnectAttempts, toHelper, pipesOpen, callerVars, devVars, stepVars, fmtVars, serVars >>

\* write_payload after ensure_connected: the characteristic handle (looked
\* up when it is not cached) and client.write_gatt_char; the first failure
\* (k = 1) drops the cached client and handle and reconnects, the second
\* (k = 2) raises.  write_gatt_char is awaited with no timeout: a peer that
\* never acknowledges leaves the helper in it ("hung").
HelperWrite(k) ==
  /\ helperPc = (IF k = 1 THEN "w_write1" ELSE "w_write2")
  /\ \E char \in (IF hs.rx_char = "None" THEN {"None", "rx"} ELSE {hs.rx_char}) :
       IF char = "None"
         THEN HRaise(hs, <<>>) /\ UNCHANGED hWriteAttempts
         ELSE /\ hWriteAttempts' = hWriteAttempts + 1
              /\ \E res \in {"ok", "fail", "hang"} :
                   CASE res = "ok" ->
                          HReply([hs EXCEPT !.rx_char = char],
                                 << Line("ok", hCmdSeq) >>)
                     [] res = "hang" ->
                          HGoto("hung", [hs EXCEPT !.rx_char = char], hret)
                     [] res = "fail" ->
                          IF k = 1
                            THEN HGoto("ec_entry",
                                       [hs EXCEPT !.client = "None",
                                                  !.rx_char = "None"],
                                       "write2")
                            ELSE HRaise([hs EXCEPT !.rx_char = char], <<>>)
  /\ UNCHANGED << hCmdSeq, hConnectAttempts, toHelper, pipesOpen, callerVars, devVars, stepVars, fmtVars, serVars >>

(***************************************************************************)
(* Formatter: sanitize_and_format and wrap_to_width.                       *)
(***************************************************************************)
\* U+2019 and U+2018, each one character of the text.
RSQUO == "rsquo"
LSQUO == "lsquo"

\* [A-Za-z], as far as the inputs of the model go.
Letters == {"a", "E", "N", "D", "H", "I", "e", "g", "h", "i", "l", "n", "o", "p",
            "r", "s", "t"}
IsLetter(c) == c \in Letters

\* \s, as far as the inputs of the model go.
IsSpace(c) == c \in {" ", NL}

\* String#strip
RECURSIVE LStrip(_)
LStrip(s) == IF s # <<>> /\ IsSpace(Head(s)) THEN LStrip(Tail(s)) ELSE s

RECURSIVE RStrip(_)
RStrip(s) ==
  IF s # <<>> /\ IsSpace(s[Len(s)]) THEN RStrip(SubSeq(s, 1, Len(s) - 1)) ELSE s

Strip(s) == RStrip(LStrip(s))

\* The fields of s between the occurrences of sep, empty ones included.
RECURSIVE Fields(_, _)
Fields(s, sep) ==
  IF ~Contains(s, sep)
    THEN << s >>
    ELSE << SubSeq(s, 1, IndexOf(s, sep) - 1) >>
           \o Fields(SubSeq(s, IndexOf(s, sep) + 1, Len(s)), sep)

\* String#split drops the empty fields at the end.
RECURSIVE DropTrailingEmpty(_)
DropTrailingEmpty(f) ==
  IF f # <<>> /\ f[Len(f)] = <<>>
    THEN DropTrailingEmpty(SubSeq(f, 1, Len(f) - 1))
    ELSE f

\* s.split("\n")
SplitLines(s) == IF s = <<>> THEN <<>> ELSE DropTrailingEmpty(Fields(s, NL))

\* The fields of s between its runs of whitespace.
RECURSIVE WordFields(_)
WordFields(s) ==
  IF \A i \in 1..Len(s) : ~IsSpace(s[i])
    THEN << s >>
    ELSE LET i == CHOOSE k \in 1..Len(s) :
                    IsSpace(s[k]) /\ \A j \in 1..(k - 1) : ~IsSpace(s[j])
             rest == LStrip(SubSeq(s, i, Len(s)))
         IN << SubSeq(s, 1, i - 1) >>
              \o (IF rest = <<>> THEN <<>> ELSE WordFields(rest))

\* text.split(/\s+/)
SplitWords(s) == IF s = <<>> THEN <<>> ELSE DropTrailingEmpty(WordFields(s))

\* Array#join
RECURSIVE JoinWith(_, _)
JoinWith(parts, sep) ==
  IF parts = <<>> THEN <<>>
  ELSE IF Len(parts) = 1 THEN parts[1]
  ELSE parts[1] \o << sep >> \o JoinWith(Tail(parts), sep)

\* Array#first(n)
FirstN(s, n) == SubSeq(s, 1, Min(n, Len(s)))

\* The loop of wrap_to_width over the words.
RECURSIVE WrapWords(_, _, _, _)
WrapWords(words, cols, lines, current) ==
  IF words = <<>>
    THEN IF current = <<>> THEN lines ELSE Append(lines, current)
    ELSE LET word == Head(words)
             rest == Tail(words)
         IN IF Len(word) > cols
              THEN WrapWords(rest, cols,
                             (IF current = <<>> THEN lines ELSE Append(lines, current))
                               \o << word >>,
                             <<>>)
              ELSE IF current = <<>>
                THEN WrapWords(rest, cols, lines, word)
              ELSE IF Len(current) + 1 + Len(word) <= cols
                THEN WrapWords(rest, cols, lines, current \o << " " >> \o word)
              ELSE WrapWords(rest, cols, Append(lines, current), word)

\* A wrap that puts every word on the current line.
WrapOnOneLine(text, cols) == JoinWith(SplitWords(text), " ")

wrap_to_width(text, cols) ==
  LET words == SplitWords(text)
  IN IF words = <<>> THEN <<>>
     ELSE JoinWith(WrapWords(words, cols, <<>>, <<>>), NL)

\* The end of the run of letters that starts at i.
RECURSIVE LettersEnd(_, _)
LettersEnd(text, i) ==
  IF i < Len(text) /\ IsLetter(text[i + 1]) THEN LettersEnd(text, i + 1) ELSE i

\* The end of a token whose first run of letters ends at j: (?:'[A-Za-z]+)*
RECURSIVE TokenTail(_, _)
TokenTail(text, j) ==
  IF j + 2 <= Len(text) /\ text[j + 1] = "'" /\ IsLetter(text[j + 2])
    THEN TokenTail(text, LettersEnd(text, j + 2))
    ELSE j

\* TOKEN_RE.match(text, i): the index of the last character of the match,
\* 0 when there is none.
TokenMatch(text, i) ==
  IF IsLetter(text[i]) THEN TokenTail(text, LettersEnd(text, i)) ELSE 0

\* The while loop of sanitize_and_format; out is out_chars.join.
RECURSIVE TokenLoop(_, _, _, _, _, _)
TokenLoop(text, i, out, word_count, last_was_space, max_tokens) ==
  IF i > Len(text) THEN out
  ELSE
    LET e == TokenMatch(text, i)
        ch == text[i]
    IN IF e # 0
         THEN IF word_count >= max_tokens
                THEN out
                ELSE LET sep == IF out # <<>> /\ out[Len(out)] \notin {" ", ",", "."}
                                  THEN << " " >> ELSE <<>>
                     IN TokenLoop(text, e + 1, out \o sep \o SubSeq(text, i, e),
                                  word_count + 1, FALSE, max_tokens)
       ELSE IF IsSpace(ch)
         THEN IF out # <<>> /\ ~last_was_space
                THEN TokenLoop(text, i + 1, Append(out, " "), word_count, TRUE,
                               max_tokens)
                ELSE TokenLoop(text, i + 1, out, word_count, last_was_space,
                               max_tokens)
       ELSE IF ch \in {",", "."}
         THEN IF out # <<>>
                THEN LET popped == IF out[Len(out)] = " "
                                     THEN SubSeq(out, 1, Len(out) - 1) ELSE out
                     IN TokenLoop(text, i + 1, popped \o << ch, " " >>, word_count,
                                  TRUE, max_tokens)
                ELSE TokenLoop(text, i + 1, out, word_count, last_was_space,
                               max_tokens)
       ELSE TokenLoop(text, i + 1, out, word_count, last_was_space, max_tokens)

\* A token loop that never stops at max_tokens.
SanitizeTokensUncounted(text, max_tokens) ==
  TokenLoop(text, 1, <<>>, 0, FALSE, Len(text) + 1)

\* A token loop that treats a comma as white space.
SanitizeTokensNoCommas(text, max_tokens) ==
  TokenLoop([k \in 1..Len(text) |-> IF text[k] = "," THEN " " ELSE text[k]],
            1, <<>>, 0, FALSE, max_tokens)

\* out_chars.join after the loop.
SanitizeTokens(text, max_tokens) == TokenLoop(text, 1, <<>>, 0, FALSE, max_tokens)

\* trimmed.sub(/[\s,]+$/, '')
RECURSIVE DropTrailingSpaceComma(_)
DropTrailingSpaceComma(s) ==
  IF s # <<>> /\ (IsSpace(s[Len(s)]) \/ s[Len(s)] = ",")
    THEN DropTrailingSpaceComma(SubSeq(s, 1, Len(s) - 1))
    ELSE s

\* The full stop at the end of the sentence.
EndSentence(out) ==
  LET trimmed == Strip(out)
  IN IF trimmed # <<>> /\ trimmed[Len(trimmed)] # "."
       THEN Append(DropTrailingSpaceComma(trimmed), ".")
       ELSE trimmed

\* lines.pop while lines.any? && lines.last.strip.empty?
RECURSIVE PopBlankLines(_)
PopBlankLines(lines) ==
  IF lines # <<>> /\ Strip(lines[Len(lines)]) = <<>>
    THEN PopBlankLines(SubSeq(lines, 1, Len(lines) - 1))
    ELSE lines

\* lines.pop if lines.any? && lines.last.strip == 'END'
PopEndLine(lines) ==
  IF lines # <<>> /\ Strip(lines[Len(lines)]) = << "E", "N", "D" >>
    THEN SubSeq(lines, 1, Len(lines) - 1)
    ELSE lines

NotEmpty(s) == s # <<>>

\* gsub of the typographic apostrophes
StraightQuotes(text) ==
  [k \in 1..Len(text) |-> IF text[k] \in {RSQUO, LSQUO} THEN "'" ELSE text[k]]

\* A cut that keeps the whole text.
WholeText(text) == text

\* text[0..dot_idx]
FirstSentence(text) ==
  IF Contains(text, ".") THEN SubSeq(text, 1, IndexOf(text, ".")) ELSE text

\* text, once the closing lines are dropped, the lines joined and the first
\* sentence cut out.
SentenceText(raw) ==
  LET lines == PopEndLine(PopBlankLines(SplitLines(raw)))
      stripped == [k \in 1..Len(lines) |-> Strip(lines[k])]
  IN FirstSentence(StraightQuotes(JoinWith(SelectSeq(stripped, NotEmpty), " ")))

sanitize_and_format(raw, max_tokens, max_lines, width) ==
  LET text == SentenceText(raw)
      trimmed == EndSentence(SanitizeTokens(text, max_tokens))
      wrapped == wrap_to_width(trimmed, width)
      out_lines == FirstN(SplitLines(wrapped), max_lines)
  IN JoinWith(out_lines, NL)

\* One call of the formatter.
FormatCall ==
  /\ fmtPc = "in"
  /\ fmtOut' = sanitize_and_format(fmtRaw, fmtMaxTokens, fmtMaxLines, fmtWidth)
  /\ fmtPc' = "out"
  /\ UNCHANGED << fmtRaw, fmtMaxTokens, fmtMaxLines, fmtWidth, devVars, bridgeVars,
                  stepVars >>

(***************************************************************************)
(* Bridge: the background process (main, send_ble, BlePersistent, at_exit). *)
(***************************************************************************)
ExitPcs == { "exit_lock", "cl_send", "cl_read", "cl_cleanup", "cl_wait",
             "exit_unlock", "exit_serial", "exited" }

\* ensure_alive!: @wait_thr.alive?
HelperAlive == helperPc \notin {"none", "exited"}

\* Where main continues after send_ble returned or raised.
AfterSend == IF mainRet = "probe" THEN "loop_top" ELSE "sleep"

\* The StandardError that ended a deliver: where it was raised and why.
Error(at, why) == [at |-> at, why |-> why]

\* A StandardError leaves send_ble: synchronize releases the lock and the
\* rescue of the caller (main) takes over.
Fail(why) ==
  /\ mutexHeld' = FALSE
  /\ mainPc' = AfterSend
  /\ hLastError' = Error(mainPc, why)
  /\ hFault' = FALSE

\* The step raises nothing.
NoFail == UNCHANGED << hLastError, hFault >>

\* send_command after ensure_alive! succeeded.
SendCommand(type) ==
  /\ sentSeq' = sentSeq + 1
  /\ toHelper' = Append(toHelper,
                        IF type = "config"
                          THEN [type |-> type, seq |-> sentSeq + 1,
                                name |-> "MatrixPanel", address |-> bleAddress]
                          ELSE Command(type, sentSeq + 1))

\* A read_response that waits for a line even at the end of the pipe.
CanReadLineOnly == fromHelper # <<>>

\* read_response can return: a line is there, or the helper is gone (EOF).
CanRead == fromHelper # <<>> \/ helperPc = "exited"

\* Where main delivers: send_ble or send_serial.
SendPc == IF transport = "BLE" THEN "sb_lock" ELSE "ser_send"

\* main, up to the initial send_ble('') or send_serial('').
MainStart ==
  /\ mainPc = "start"
  /\ mainRet' = "probe"
  /\ payloadEmpty' = TRUE
  /\ payload' = <<>>
  /\ mainPc' = SendPc
  /\ UNCHANGED << cycles, mutexHeld, blePersist, connected, bleAddress, sentSeq,
                  toHelper, fromHelper, pipesOpen, helperVars, devVars, stepVars, fmtVars, serVars, genVars,
                  hLastError, hFault >>

\* The top of one iteration of the loop of main: ollama_generate is called.
LoopTop ==
  /\ mainPc = "loop_top"
  /\ cycles < MaxCycles
  /\ cycles' = cycles + 1
  /\ mainPc' = "gen_up"
  /\ genRaw' = "none"
  /\ hGenPaths' = <<>>
  /\ hSendCalls' = 0
  /\ UNCHANGED << mainRet, payloadEmpty, payload, mutexHeld, blePersist, connected,
                  bleAddress, sentSeq, toHelper, fromHelper, pipesOpen,
                  helperVars, devVars, stepVars, fmtVars, serVars, hLastError, hFault >>

\* ollama_generate: ensure_ollama_up (GET /api/tags, any error is false).
GenUp ==
  /\ mainPc = "gen_up"
  /\ \E up \in BOOLEAN : mainPc' = IF up THEN "gen_model" ELSE "gen_cli"
  /\ UNCHANGED << mainRet, payloadEmpty, payload, cycles, mutexHeld, blePersist, connected,
                  bleAddress, sentSeq, toHelper, fromHelper, pipesOpen,
                  helperVars, devVars, stepVars, fmtVars, serVars, genVars, hLastError, hFault >>

\* ollama_generate: has_model(MODEL) (any error is false).
GenModel ==
  /\ mainPc = "gen_model"
  /\ \E present \in BOOLEAN : mainPc' = IF present THEN "gen_post" ELSE "gen_cli"
  /\ UNCHANGED << mainRet, payloadEmpty, payload, cycles, mutexHeld, blePersist, connected,
                  bleAddress, sentSeq, toHelper, fromHelper, pipesOpen,
                  helperVars, devVars, stepVars, fmtVars, serVars, genVars, hLastError, hFault >>

\* What POST /api/chat can end with: the content of a reply (a string, or
\* another JSON value), a 404 or a JSON body without content (the code
\* falls through), or an exception (unreachable, timeout, another non-2xx
\* status, a body that is not JSON), which the rescue logs.
PostOutcomes == { "text", "nontext", "fallthrough", "exception" }

\* A service path that raises its exception to the caller.
GenPostRaises ==
  /\ mainPc = "gen_post"
  /\ hGenPaths' = Append(hGenPaths, "service")
  /\ \E res \in PostOutcomes :
       CASE res \in {"text", "nontext"} -> genRaw' = res /\ mainPc' = "format"
         [] res = "fallthrough" -> genRaw' = genRaw /\ mainPc' = "gen_cli"
         [] res = "exception" -> genRaw' = "failed" /\ mainPc' = "sleep"
  /\ UNCHANGED << mainRet, payloadEmpty, payload, cycles, mutexHeld, blePersist, connected,
                  bleAddress, sentSeq, toHelper, fromHelper, pipesOpen,
                  helperVars, devVars, stepVars, fmtVars, serVars, hSendCalls, hLastError, hFault >>

\* ollama_generate: the service path, POST /api/chat and its response.
GenPost ==
  /\ mainPc = "gen_post"
  /\ hGenPaths' = Append(hGenPaths, "service")
  /\ \E res \in PostOutcomes :
       IF res \in {"text", "nontext"}
         THEN genRaw' = res /\ mainPc' = "format"
         ELSE genRaw' = genRaw /\ mainPc' = "gen_cli"
  /\ UNCHANGED << mainRet, payloadEmpty, payload, cycles, mutexHeld, blePersist, connected,
                  bleAddress, sentSeq, toHelper, fromHelper, pipesOpen,
                  helperVars, devVars, stepVars, fmtVars, serVars, hSendCalls, hLastError, hFault >>

\* What "ollama run" under Timeout.timeout(180) can end with.
CliOutcomes == { "success", "nonzero", "timeout", "enoent" }

\* A main loop that delivers the previous payload when generation failed.
GenCliDeliversAnyway ==
  /\ mainPc = "gen_cli"
  /\ hGenPaths' = Append(hGenPaths, "cli")
  /\ \E res \in CliOutcomes :
       IF res = "success"
         THEN genRaw' = "text" /\ mainPc' = "format"
         ELSE genRaw' = "failed" /\ mainPc' = "sb_lock"
  /\ UNCHANGED << mainRet, payloadEmpty, payload, cycles, mutexHeld, blePersist, connected,
                  bleAddress, sentSeq, toHelper, fromHelper, pipesOpen,
                  helperVars, devVars, stepVars, fmtVars, serVars, hSendCalls, hLastError, hFault >>

\* ollama_generate: the command-line fallback; its failure is raised to
\* main, whose rescue logs it and goes on to the sleep.
GenCli ==
  /\ mainPc = "gen_cli"
  /\ hGenPaths' = Append(hGenPaths, "cli")
  /\ \E res \in CliOutcomes :
       IF res = "success"
         THEN genRaw' = "text" /\ mainPc' = "format"
         ELSE genRaw' = "failed" /\ mainPc' = "sleep"
  /\ UNCHANGED << mainRet, payloadEmpty, payload, cycles, mutexHeld, blePersist, connected,
                  bleAddress, sentSeq, toHelper, fromHelper, pipesOpen,
                  helperVars, devVars, stepVars, fmtVars, serVars, hSendCalls, hLastError, hFault >>

\* The largest width main passes to the formatter: [PANEL_COLS, 19].min
WidthMax == 19

\* A payload that is the formatted text as it is.
MakePayloadBare(raw, max_tokens, max_lines, panel_cols) ==
  sanitize_and_format(raw, max_tokens, max_lines, Min(panel_cols, WidthMax))

\* main: width, formatted and payload.  The text that ollama_generate
\* returned is fmtRaw, and MAX_TOKENS, MAX_LINES and PANEL_COLS of the
\* environment are fmtMaxTokens, fmtMaxLines and fmtWidth.
MakePayload(raw, max_tokens, max_lines, panel_cols) ==
  LET formatted == sanitize_and_format(raw, max_tokens, max_lines,
                                       Min(panel_cols, WidthMax))
  IN IF formatted # <<>> /\ formatted[Len(formatted)] = NL
       THEN formatted
       ELSE Append(formatted, NL)

\* main: sanitize_and_format and the payload (never empty: it ends with a
\* newline); a raw value that is not a string raises NoMethodError, which
\* the rescue of main logs.
Format ==
  /\ mainPc = "format"
  /\ IF genRaw = "text"
       THEN /\ mainRet' = "cycle"
            /\ payload' = MakePayload(fmtRaw, fmtMaxTokens, fmtMaxLines, fmtWidth)
            /\ payloadEmpty' = (payload' = <<>>)
            /\ mainPc' = SendPc
       ELSE mainPc' = "sleep" /\ UNCHANGED << mainRet, payloadEmpty, payload >>
  /\ UNCHANGED << cycles, mutexHeld, blePersist, connected, bleAddress, sentSeq,
                  toHelper, fromHelper, pipesOpen, helperVars, devVars, stepVars, fmtVars, serVars, genVars,
                  hLastError, hFault >>

\* sleep INTERVAL_S
Sleep ==
  /\ mainPc = "sleep"
  /\ mainPc' = "loop_top"
  /\ UNCHANGED << mainRet, payloadEmpty, payload, cycles, mutexHeld, blePersist, connected,
                  bleAddress, sentSeq, toHelper, fromHelper, pipesOpen,
                  helperVars, devVars, stepVars, fmtVars, serVars, genVars, hLastError, hFault >>

\* send_serial: the port is opened when $ser_handle is nil or closed, then
\* the payload (all of it ASCII after the formatter) is written and flushed.  SerialPort.new can raise (the
\* handle stays as it was) and so can write or flush (the handle stays
\* open); the rescue of main takes over.
SendSerial ==
  /\ mainPc = "ser_send"
  /\ hSendCalls' = hSendCalls + 1
  /\ mainPc' = AfterSend
  /\ \E res \in IF serHandle = "open" THEN {"ok", "write_failed"}
                 ELSE {"ok", "write_failed", "open_failed"} :
       /\ serHandle' = IF res = "open_failed" THEN serHandle ELSE "open"
       /\ serWire' = IF res = "ok" THEN serWire \o payload ELSE serWire
       /\ hLastError' = IF res = "ok" THEN Error("none", "none")
                        ELSE Error("ser_send", res)
  /\ UNCHANGED << mainRet, payloadEmpty, payload, cycles, mutexHeld, blePersist, connected,
                  bleAddress, sentSeq, toHelper, fromHelper, pipesOpen,
                  helperVars, devVars, stepVars, fmtVars, genRaw, hGenPaths, hFault,
                  transport, hExit >>

\* send_ble: $ble_mutex.synchronize, then $ble_persist ||= ...
SbLock ==
  /\ mainPc = "sb_lock"
  /\ ~mutexHeld
  /\ mutexHeld' = TRUE
  /\ hSendCalls' = hSendCalls + 1
  /\ mainPc' = IF blePersist THEN "sb_connect" ELSE "new_popen"
  /\ UNCHANGED << mainRet, payloadEmpty, payload, cycles, blePersist, connected,
                  bleAddress, sentSeq, toHelper, fromHelper, pipesOpen,
                  helperVars, devVars, stepVars, fmtVars, serVars, genRaw, hGenPaths, hLastError, hFault >>

\* initialize_helper: Open3.popen2 starts a fresh helper, or python3 is
\* missing (Errno::ENOENT, re-raised through initialize).
NewPopen ==
  /\ mainPc = "new_popen"
  /\ connected' = FALSE
  /\ \E spawned \in BOOLEAN :
       IF spawned
         THEN /\ helperPc' = "boot"
              /\ hs' = HelperState0
              /\ hret' = "none"
              /\ hCmdSeq' = 0
              /\ hWriteAttempts' = 0
              /\ hConnectAttempts' = 0
              /\ toHelper' = <<>>
              /\ fromHelper' = <<>>
              /\ pipesOpen' = TRUE
              /\ mainPc' = "new_tryread"
              /\ hFault' = FALSE
              /\ UNCHANGED << mutexHeld, hLastError >>
         ELSE /\ Fail("spawn")
              /\ UNCHANGED << toHelper, fromHelper, pipesOpen, helperVars >>
  /\ UNCHANGED << mainRet, payloadEmpty, payload, cycles, blePersist, bleAddress, sentSeq,
                  devVars, stepVars, fmtVars, serVars, genVars >>

\* initialize_helper: try_read_line(0.1) and the check of a start-up error.
NewTryRead ==
  /\ mainPc = "new_tryread"
  /\ IF fromHelper # <<>>
       THEN /\ fromHelper' = Tail(fromHelper)
            /\ IF Head(fromHelper).status = "error"
                 THEN /\ mainPc' = "new_cleanup"
                      /\ hLastError' = Error(mainPc, "not_ok")
                 ELSE mainPc' = "new_send" /\ UNCHANGED hLastError
       ELSE mainPc' = "new_send" /\ UNCHANGED << fromHelper, hLastError >>
  /\ UNCHANGED << mainRet, payloadEmpty, payload, cycles, mutexHeld, blePersist, connected,
                  bleAddress, sentSeq, toHelper, pipesOpen, helperVars, devVars, stepVars, fmtVars, serVars,
                  genVars, hFault >>

\* initialize_helper: send_command(type: 'config', ...)
NewSend ==
  /\ mainPc = "new_send"
  /\ IF HelperAlive
       THEN SendCommand("config") /\ mainPc' = "new_read" /\ UNCHANGED hLastError
       ELSE /\ mainPc' = "new_cleanup"
            /\ hLastError' = Error(mainPc, "helper_exited")
            /\ UNCHANGED << sentSeq, toHelper >>
  /\ UNCHANGED << mainRet, payloadEmpty, payload, cycles, mutexHeld, blePersist, connected,
                  bleAddress, fromHelper, pipesOpen, helperVars, devVars, stepVars, fmtVars, serVars,
                  genVars, hFault >>

\* initialize_helper: read_ok of the config command; on success the object
\* is stored in $ble_persist.
NewRead ==
  /\ mainPc = "new_read"
  /\ CanRead
  /\ IF fromHelper # <<>>
       THEN /\ fromHelper' = Tail(fromHelper)
            /\ IF Head(fromHelper).status = "ok"
                 THEN /\ blePersist' = TRUE
                      /\ mainPc' = "sb_connect"
                      /\ UNCHANGED hLastError
                 ELSE /\ mainPc' = "new_cleanup"
                      /\ hLastError' = Error(mainPc, "not_ok")
                      /\ UNCHANGED blePersist
       ELSE /\ mainPc' = "new_cleanup"
            /\ hLastError' = Error(mainPc, "eof")
            /\ UNCHANGED << fromHelper, blePersist >>
  /\ UNCHANGED << mainRet, payloadEmpty, payload, cycles, mutexHeld, connected, bleAddress,
                  sentSeq, toHelper, pipesOpen, helperVars, devVars, stepVars, fmtVars, serVars, genVars,
                  hFault >>

\* initialize: rescue StandardError, cleanup closes both pipes ...
NewCleanup ==
  /\ mainPc = "new_cleanup"
  /\ pipesOpen' = FALSE
  /\ mainPc' = "new_wait"
  /\ UNCHANGED << mainRet, payloadEmpty, payload, cycles, mutexHeld, blePersist, connected,
                  bleAddress, sentSeq, toHelper, fromHelper, helperVars, devVars, stepVars, fmtVars, serVars,
                  genVars, hLastError, hFault >>

\* ... and waits for the helper (@wait_thr.value), then re-raises.
NewWait ==
  /\ mainPc = "new_wait"
  /\ helperPc = "exited"
  /\ mutexHeld' = FALSE
  /\ mainPc' = AfterSend
  /\ hFault' = FALSE
  /\ UNCHANGED << mainRet, payloadEmpty, payload, cycles, blePersist, connected, bleAddress,
                  sentSeq, toHelper, fromHelper, pipesOpen, helperVars, devVars, stepVars, fmtVars, serVars,
                  genVars, hLastError >>

\* connect: return if @connected
SbConnect ==
  /\ mainPc = "sb_connect"
  /\ mainPc' = IF connected THEN "sb_write" ELSE "conn_send"
  /\ UNCHANGED << mainRet, payloadEmpty, payload, cycles, mutexHeld, blePersist, connected,
                  bleAddress, sentSeq, toHelper, fromHelper, pipesOpen,
                  helperVars, devVars, stepVars, fmtVars, serVars, genVars, hLastError, hFault >>

\* connect: send_command(type: 'connect')
ConnSend ==
  /\ mainPc = "conn_send"
  /\ IF HelperAlive
       THEN /\ SendCommand("connect")
            /\ mainPc' = "conn_read"
            /\ NoFail
            /\ UNCHANGED mutexHeld
       ELSE Fail("helper_exited") /\ UNCHANGED << sentSeq, toHelper >>
  /\ UNCHANGED << mainRet, payloadEmpty, payload, cycles, blePersist, connected, bleAddress,
                  fromHelper, pipesOpen, helperVars, devVars, stepVars, fmtVars, serVars, genVars >>

\* connect: read_ok, then @connected = true
ConnRead ==
  /\ mainPc = "conn_read"
  /\ CanRead
  /\ IF fromHelper # <<>>
       THEN /\ fromHelper' = Tail(fromHelper)
            /\ IF Head(fromHelper).status = "ok"
                 THEN /\ connected' = TRUE
                      /\ mainPc' = "sb_write"
                      /\ NoFail
                      /\ UNCHANGED mutexHeld
                 ELSE Fail("not_ok") /\ UNCHANGED connected
       ELSE Fail("eof") /\ UNCHANGED << fromHelper, connected >>
  /\ UNCHANGED << mainRet, payloadEmpty, payload, cycles, blePersist, bleAddress, sentSeq,
                  toHelper, pipesOpen, helperVars, devVars, stepVars, fmtVars, serVars, genVars >>

\* send_ble: the empty payload skips the write; write: connect unless
\* @connected (the connect of write fails like the connect of send_ble: the
\* rescue of write leaves @connected false).
SbWrite ==
  /\ mainPc = "sb_write"
  /\ mainPc' = IF payloadEmpty THEN "sb_unlock"
               ELSE IF connected THEN "wr_send" ELSE "conn_send"
  /\ UNCHANGED << mainRet, payloadEmpty, payload, cycles, mutexHeld, blePersist, connected,
                  bleAddress, sentSeq, toHelper, fromHelper, pipesOpen,
                  helperVars, devVars, stepVars, fmtVars, serVars, genVars, hLastError, hFault >>

\* write: send_command(type: 'write', payload: payload)
WrSend ==
  /\ mainPc = "wr_send"
  /\ IF HelperAlive
       THEN /\ SendCommand("write")
            /\ mainPc' = "wr_read"
            /\ NoFail
            /\ UNCHANGED << mutexHeld, connected >>
       ELSE /\ Fail("helper_exited")
            /\ connected' = FALSE
            /\ UNCHANGED << sentSeq, toHelper >>
  /\ UNCHANGED << mainRet, payloadEmpty, payload, cycles, blePersist, bleAddress,
                  fromHelper, pipesOpen, helperVars, devVars, stepVars, fmtVars, serVars, genVars >>

\* A write whose failure leaves @connected as it was.
WrReadKeepsConnected ==
  /\ mainPc = "wr_read"
  /\ CanRead
  /\ IF fromHelper # <<>>
       THEN /\ fromHelper' = Tail(fromHelper)
            /\ IF Head(fromHelper).status = "ok"
                 THEN mainPc' = "sb_unlock" /\ NoFail /\ UNCHANGED mutexHeld
                 ELSE Fail("not_ok")
       ELSE Fail("eof") /\ UNCHANGED fromHelper
  /\ UNCHANGED << mainRet, payloadEmpty, payload, cycles, blePersist, bleAddress, sentSeq,
                  connected, toHelper, pipesOpen, helperVars, devVars, stepVars, fmtVars, serVars, genVars >>

\* write: read_ok; rescue StandardError sets @connected = false and re-raises
WrRead ==
  /\ mainPc = "wr_read"
  /\ CanRead
  /\ IF fromHelper # <<>>
       THEN /\ fromHelper' = Tail(fromHelper)
            /\ IF Head(fromHelper).status = "ok"
                 THEN /\ mainPc' = "sb_unlock"
                      /\ NoFail
                      /\ UNCHANGED << mutexHeld, connected >>
                 ELSE Fail("not_ok") /\ connected' = FALSE
       ELSE Fail("eof") /\ connected' = FALSE /\ UNCHANGED fromHelper
  /\ UNCHANGED << mainRet, payloadEmpty, payload, cycles, blePersist, bleAddress, sentSeq,
                  toHelper, pipesOpen, helperVars, devVars, stepVars, fmtVars, serVars, genVars >>

\* send_ble returns 'ok-ble': the lock is released.
SbUnlock ==
  /\ mainPc = "sb_unlock"
  /\ mutexHeld' = FALSE
  /\ mainPc' = AfterSend
  /\ hLastError' = Error("none", "none")
  /\ hFault' = FALSE
  /\ UNCHANGED << mainRet, payloadEmpty, payload, cycles, blePersist, connected, bleAddress,
                  sentSeq, toHelper, fromHelper, pipesOpen, helperVars, devVars, stepVars, fmtVars, serVars,
                  genVars >>

\* SIGINT or SIGTERM: Interrupt / SignalException is not a StandardError, so
\* no rescue of the main thread catches it; unwinding leaves synchronize
\* (the lock is released) and the at_exit block runs.
Interrupt ==
  /\ mainPc \notin ExitPcs
  /\ mutexHeld' = FALSE
  /\ mainPc' = "exit_lock"
  /\ UNCHANGED << mainRet, payloadEmpty, payload, cycles, blePersist, connected, bleAddress,
                  sentSeq, toHelper, fromHelper, pipesOpen, helperVars, devVars, stepVars, fmtVars, serVars,
                  genVars, hLastError, hFault >>

\* at_exit: $ble_mutex.synchronize, $ble_persist&.close
ExitLock ==
  /\ mainPc = "exit_lock"
  /\ ~mutexHeld
  /\ mutexHeld' = TRUE
  /\ mainPc' = IF blePersist THEN "cl_send" ELSE "exit_unlock"
  /\ hExit' = [hExit EXCEPT !.handle = blePersist]
  /\ UNCHANGED << mainRet, payloadEmpty, payload, cycles, blePersist, connected, bleAddress,
                  sentSeq, toHelper, fromHelper, pipesOpen, helperVars, devVars, stepVars, fmtVars,
                  genVars, hLastError, hFault, transport, serWire, serHandle >>

\* A close whose failed command is not rescued: the error leaves at_exit's
\* first block and, uncaught there too, ends the exit handlers.
ClSendRaises ==
  /\ mainPc = "cl_send"
  /\ IF HelperAlive
       THEN SendCommand("close") /\ mainPc' = "cl_read" /\ UNCHANGED mutexHeld
       ELSE /\ mainPc' = "exited"
            /\ mutexHeld' = FALSE
            /\ UNCHANGED << sentSeq, toHelper >>
  /\ hExit' = [hExit EXCEPT !.closeTried = TRUE,
                             !.closeFailed = ~HelperAlive]
  /\ UNCHANGED << mainRet, payloadEmpty, payload, cycles, blePersist, connected,
                  bleAddress, fromHelper, pipesOpen, helperVars, devVars, stepVars, fmtVars,
                  genVars, hLastError, hFault, transport, serWire, serHandle >>

\* close: send_command(type: 'close'); an error is ignored
ClSend ==
  /\ mainPc = "cl_send"
  /\ IF HelperAlive
       THEN SendCommand("close") /\ mainPc' = "cl_read"
       ELSE mainPc' = "cl_cleanup" /\ UNCHANGED << sentSeq, toHelper >>
  /\ hExit' = [hExit EXCEPT !.closeTried = TRUE,
                             !.closeFailed = ~HelperAlive]
  /\ UNCHANGED << mainRet, payloadEmpty, payload, cycles, mutexHeld, blePersist, connected,
                  bleAddress, fromHelper, pipesOpen, helperVars, devVars, stepVars, fmtVars,
                  genVars, hLastError, hFault, transport, serWire, serHandle >>

\* close: read_ok; an error is ignored
ClRead ==
  /\ mainPc = "cl_read"
  /\ CanRead
  /\ fromHelper' = IF fromHelper # <<>> THEN Tail(fromHelper) ELSE fromHelper
  /\ mainPc' = "cl_cleanup"
  /\ UNCHANGED << mainRet, payloadEmpty, payload, cycles, mutexHeld, blePersist, connected,
                  bleAddress, sentSeq, toHelper, pipesOpen, helperVars, devVars, stepVars, fmtVars, serVars,
                  genVars, hLastError, hFault >>

\* close, ensure: @connected = false and cleanup closes both pipes ...
ClCleanup ==
  /\ mainPc = "cl_cleanup"
  /\ connected' = FALSE
  /\ pipesOpen' = FALSE
  /\ mainPc' = "cl_wait"
  /\ UNCHANGED << mainRet, payloadEmpty, payload, cycles, mutexHeld, blePersist, bleAddress,
                  sentSeq, toHelper, fromHelper, helperVars, devVars, stepVars, fmtVars, serVars, genVars,
                  hLastError, hFault >>

\* ... and waits for the helper; at_exit: $ble_persist = nil
ClWait ==
  /\ mainPc = "cl_wait"
  /\ helperPc = "exited"
  /\ blePersist' = FALSE
  /\ mainPc' = "exit_unlock"
  /\ UNCHANGED << mainRet, payloadEmpty, payload, cycles, mutexHeld, connected, bleAddress,
                  sentSeq, toHelper, fromHelper, pipesOpen, helperVars, devVars, stepVars, fmtVars, serVars,
                  genVars, hLastError, hFault >>

\* at_exit: the lock is released; the first begin block is over.
ExitUnlock ==
  /\ mainPc = "exit_unlock"
  /\ mutexHeld' = FALSE
  /\ mainPc' = "exit_serial"
  /\ UNCHANGED << mainRet, payloadEmpty, payload, cycles, blePersist, connected, bleAddress,
                  sentSeq, toHelper, fromHelper, pipesOpen, helperVars, devVars, stepVars, fmtVars,
                  serVars, genVars, hLastError, hFault >>

\* at_exit, second begin block: $ser_handle&.close; a StandardError of the
\* close is ignored.  Then the process ends and its pipe ends close.
ExitSerial ==
  /\ mainPc = "exit_serial"
  /\ \E raised \in (IF serHandle = "open" THEN BOOLEAN ELSE {FALSE}) :
       /\ serHandle' = IF serHandle = "open" /\ ~raised THEN "closed"
                        ELSE serHandle
       /\ hExit' = [hExit EXCEPT !.serOpen = (serHandle = "open"),
                                  !.serTried = TRUE,
                                  !.serFailed = raised]
  /\ pipesOpen' = FALSE
  /\ mainPc' = "exited"
  /\ UNCHANGED << mainRet, payloadEmpty, payload, cycles, mutexHeld, blePersist, connected,
                  bleAddress, sentSeq, toHelper, fromHelper, helperVars, devVars,
                  stepVars, fmtVars, genVars, hLastError, hFault, transport,
                  serWire >>

(***************************************************************************)
(* Inputs of the environment.                                              *)
(***************************************************************************)
TickSteps == {WaitMs}

\* Sequencer specification: whole messages, one per channel.
SeqBleValues == { <<"a", NL>> }
SeqSerialChunks == { <<"b", NL>> }
SeqHttpReqs == { [kind |-> "post", hasPlain |-> TRUE, body |-> <<"c", NL>>] }

\* Ingestion specification: arbitrary short byte strings.
BleBytes == {"a", NL, NUL}
SerialBytes == {"a", "b", NL}
BleValues == SeqsOf(BleBytes, 0, 2)
SerialChunks == SeqsOf(SerialBytes, 1, 2)
HttpReqs == { [kind |-> "post", hasPlain |-> FALSE, body |-> <<>>] } \cup
            { [kind |-> "post", hasPlain |-> TRUE, body |-> b] :
                b \in { <<"a">>, <<"a", NL>>, <<"a", NL, "b">> } }

vars == << devVars, bridgeVars, fmtVars, stepVars >>

Init == DevInit /\ rxLeft = MaxRx /\ BridgeInit /\ bleAddress = "None" /\ transport = "BLE" /\ FmtIdle /\ StepIdle

Next ==
  \/ LoopPoll
  \/ LoopCheck
  \/ LoopSwitch
  \/ \E d \in TickSteps : Tick(d)
  \/ \E v \in SeqBleValues : OnWrite(v)
  \/ \E c \in SeqSerialChunks : SerialArrive(c)
  \/ \E r \in SeqHttpReqs : HttpArrive(r)

Spec == Init /\ [][Next]_vars

InitIngest ==
  DevInit /\ currentPhilo = 0 /\ rxLeft = MaxRxIngest /\ BridgeInit /\ bleAddress = "None" /\ transport = "BLE"
  /\ FmtIdle /\ StepIdle

NextIngest ==
  \/ LoopPoll
  \/ LoopCheck
  \/ LoopSwitch
  \/ \E v \in BleValues : OnWrite(v)
  \/ \E c \in SerialChunks : SerialArrive(c)
  \/ \E r \in HttpReqs : HttpArrive(r)

SpecIngest == InitIngest /\ [][NextIngest]_vars

\* Bridge specification: the background process and its helper; the device
\* is left alone.
BridgeRaws == { <<>>, <<"a">> }

InitBridge ==
  /\ BridgeInit /\ DevInit /\ currentPhilo = 0 /\ rxLeft = 0 /\ StepIdle
  /\ fmtPc = "idle" /\ fmtRaw \in BridgeRaws /\ fmtOut = <<>>
  /\ fmtMaxTokens = 1 /\ fmtMaxLines = 1 /\ fmtWidth = 1

NextBridge ==
  \/ MainStart
  \/ LoopTop
  \/ GenUp
  \/ GenModel
  \/ GenPost
  \/ GenCli
  \/ Format
  \/ Sleep
  \/ SendSerial
  \/ SbLock
  \/ NewPopen
  \/ NewTryRead
  \/ NewSend
  \/ NewRead
  \/ NewCleanup
  \/ NewWait
  \/ SbConnect
  \/ ConnSend
  \/ ConnRead
  \/ SbWrite
  \/ WrSend
  \/ WrRead
  \/ SbUnlock
  \/ Interrupt
  \/ ExitLock
  \/ ClSend
  \/ ClRead
  \/ ClCleanup
  \/ ClWait
  \/ ExitUnlock
  \/ ExitSerial
  \/ HelperBoot
  \/ HelperCommand
  \/ HelperEof
  \/ HelperDie
  \/ HelperEcEntry
  \/ \E k \in {1, 2} : HelperDiscover(k)
  \/ \E k \in {1, 2} : HelperConnect(k)
  \/ HelperEcCheck
  \/ \E k \in {1, 2} : HelperWrite(k)

SpecBridge == InitBridge /\ [][NextBridge]_vars

\* Dissolve specification: one call of dissolveClearBlocks on each surface.
\* The loop task is at the switch in STATE_DISSOLVING, entered from the idle
\* dwell.
\* Each is << w, h, block >>: every surface of few blocks, those of no blocks
\* (a side of 0) among them, with every small block size, and one surface of
\* one row whose last blocks start beyond the largest int16_t.
Int16Max == 32767
BlockMax == 255
WideSurface == << (Int16Max \div BlockMax + 1) * BlockMax + 1, 1, BlockMax >>

Surfaces ==
  { sf \in (0..MaxSide) \X (0..MaxSide) \X (1..MaxBlockSize) :
      NumBlocks(sf[1], sf[2], sf[3]) <= MaxBlocks }
    \cup { WideSurface }

\* The channels and the history of a device that has received nothing.
NothingReceived ==
  /\ kNewLivePending = FALSE
  /\ bleAccum = <<>>
  /\ usbAccum = <<>>
  /\ serialRx = <<>>
  /\ httpReq = None
  /\ httpStatus = 0
  /\ hUnconsumed = 0
  /\ hConsumed = 0

InitDissolve ==
  /\ state = "STATE_DISSOLVING"
  /\ hFrom = "STATE_DISSOLVING"
  /\ loopPc = "switch"
  /\ tMarkAge = WaitMs
  /\ twIdx = 0
  /\ twLastAge = twDelayMs
  /\ currentPhilo = 0
  /\ gLiveText = <<>>
  /\ gHasLiveText = FALSE
  /\ hLastPublished = <<>>
  /\ NothingReceived
  /\ rxLeft = 0
  /\ BridgeInit /\ bleAddress = "None" /\ transport = "BLE"
  /\ FmtIdle
  /\ dissolvePc = "none"
  /\ \E sf \in Surfaces : dissolveW = sf[1] /\ dissolveH = sf[2] /\ block = sf[3]
  /\ idx = <<>>
  /\ shuffleI = 0
  /\ clearK = 0
  /\ cleared = <<>>
  /\ hAccessed = {}
  /\ donePc = "none"
  /\ prev = 0
  /\ numPhilos = kNumPhilos
  /\ hDrew = FALSE

NextDissolve ==
  \/ DissolveBegin
  \/ \E j \in 0..(DissolveN - 1) : DissolveShuffle(j)
  \/ DissolveOverrun
  \/ DissolveClear
  \/ DissolveEnd

SpecDissolve == InitDissolve /\ [][NextDissolve]_vars

\* Done specification: the case STATE_DONE of builds with catalogs of every
\* size, after a canned entry or a live text was revealed, with radio
\* writes arriving while the case runs.
InitDone ==
  /\ state = "STATE_DONE"
  /\ hFrom = "STATE_DONE"
  /\ loopPc = "switch"
  /\ tMarkAge = WaitMs
  /\ twLastAge = twDelayMs
  /\ numPhilos \in 1..MaxCatalog
  /\ currentPhilo \in 0..(numPhilos - 1)
  /\ \/ gHasLiveText = FALSE /\ gLiveText = <<>>
     \/ gHasLiveText = TRUE /\ gLiveText \in SeqBleValues
  /\ hLastPublished = gLiveText
  /\ twIdx = Len(TypewriterSrc)
  /\ NothingReceived
  /\ rxLeft = MaxRx
  /\ BridgeInit /\ bleAddress = "None" /\ transport = "BLE"
  /\ FmtIdle
  /\ dissolvePc = "none"
  /\ dissolveW = 0
  /\ dissolveH = 0
  /\ block = DissolveBlock
  /\ hAccessed = {}
  /\ idx = <<>>
  /\ shuffleI = 0
  /\ clearK = 0
  /\ cleared = <<>>
  /\ donePc = "none"
  /\ prev = 0
  /\ hDrew = FALSE

NextDone ==
  \/ DoneDelay
  \/ \E r \in 0..(MaxCatalog - 1) : DoneDraw(r)
  \/ DoneFinish
  \/ \E v \in SeqBleValues : OnWrite(v)

\* The loop task runs, and random() does not return prev for ever.
DoneFairness ==
  /\ WF_vars(DoneDelay)
  /\ WF_vars(\E r \in 0..(MaxCatalog - 1) : r # prev /\ DoneDraw(r))
  /\ WF_vars(DoneFinish)

SpecDone == InitDone /\ [][NextDone]_vars /\ DoneFairness

\* Serial specification, end to end: main has an answer of the model in
\* hand; it formats it, builds the payload and writes it to the serial
\* port, the bytes reach the device in any portions, and loop() runs.
SerialRaws == { <<>>, << "7" >>, << "a" >>, << "a", " ", "a" >> }
SerialPanelCols == {3, 21}

InitSerial ==
  /\ DevInit /\ currentPhilo = 0 /\ rxLeft = 0
  /\ StepIdle
  /\ mainPc = "format"
  /\ mainRet = "probe"
  /\ payloadEmpty = TRUE
  /\ payload = <<>>
  /\ cycles = 1
  /\ mutexHeld = FALSE
  /\ blePersist = FALSE
  /\ connected = FALSE
  /\ bleAddress = "None"
  /\ toHelper = <<>>
  /\ fromHelper = <<>>
  /\ pipesOpen = FALSE
  /\ helperPc = "none"
  /\ hs = HelperState0
  /\ hret = "none"
  /\ hCmdSeq = 0
  /\ sentSeq = 0
  /\ hWriteAttempts = 0
  /\ hConnectAttempts = 0
  /\ genRaw = "text"
  /\ hGenPaths = << "post" >>
  /\ hSendCalls = 0
  /\ hLastError = Error("none", "none")
  /\ hFault = FALSE
  /\ transport = "USB"
  /\ serWire = <<>>
  /\ serHandle \in {"nil", "open"}
  /\ hExit = ExitNothing
  /\ fmtPc = "idle"
  /\ fmtRaw \in SerialRaws
  /\ fmtMaxTokens = 2
  /\ fmtMaxLines = 2
  /\ fmtWidth \in SerialPanelCols
  /\ fmtOut = <<>>

NextSerial ==
  \/ Format
  \/ SendSerial
  \/ \E n \in 1..UsbAccumCap : WireDeliver(n)
  \/ LoopPoll
  \/ LoopCheck
  \/ LoopSwitch

SpecSerial == InitSerial /\ [][NextSerial]_vars

\* Formatter specification: one call on each input.
FmtChars == {"a", " ", ".", ",", "'", NL}
FmtTails == { <<>>, << NL, "E", "N", "D" >>, << NL, "E", "N", "D", NL >>,
              << RSQUO, "a" >>, << "7" >> }
FmtRaws == { p \o t : p \in SeqsOf(FmtChars, 0, MaxRawLen), t \in FmtTails }
FmtMaxTokens == {1, 2}
FmtMaxLines == {1, 2}
FmtWidths == {1, 3, 4}

\* "Hello there. Ignore this part"
HelloExample ==
  << "H", "e", "l", "l", "o", " ", "t", "h", "e", "r", "e", ".", " ",
     "I", "g", "n", "o", "r", "e", " ", "t", "h", "i", "s", " ", "p", "a", "r", "t" >>

InitFormat ==
  /\ DevInit /\ currentPhilo = 0 /\ rxLeft = 0
  /\ BridgeInit /\ bleAddress = "None" /\ transport = "BLE"
  /\ StepIdle
  /\ fmtPc = "in"
  /\ \/ /\ fmtRaw \in FmtRaws
        /\ fmtMaxTokens \in FmtMaxTokens
        /\ fmtMaxLines \in FmtMaxLines
        /\ fmtWidth \in FmtWidths
     \/ /\ fmtRaw = HelloExample
        /\ fmtMaxTokens = 28
        /\ fmtMaxLines = 6
        /\ fmtWidth = 19
  /\ fmtOut = <<>>

NextFormat == FormatCall

SpecFormat == InitFormat /\ [][NextFormat]_vars

(***************************************************************************)
(* Properties of the bridge.                                               *)
(***************************************************************************)
\* Positions of a deliver call (send_ble) at which a command is sent, and
\* at which read_ok consumes a response.
DeliverSendPcs == { "new_send", "conn_send", "wr_send" }
DeliverReadPcs == { "new_read", "conn_read", "wr_read" }

\* A step of a deliver call that sends a command.
DeliverSendStep == mainPc \in DeliverSendPcs /\ sentSeq' = sentSeq + 1

\* A step of a deliver call in which read_ok consumes a response line.
DeliverReadStep ==
  mainPc \in DeliverReadPcs /\ fromHelper # <<>> /\ fromHelper' = Tail(fromHelper)

\* C1: every response line that read_ok consumes is the helper's reply to
\* the command the caller sent most recently, and no unread response line
\* is left in the pipe when the next command is sent.  (Lines a helper
\* prints before its first command carry tag 0 and are left out.)
C1_ResponseAnswersLatestCommand ==
  [][ /\ DeliverReadStep => Head(fromHelper).tag \in {0, sentSeq}
      /\ DeliverSendStep => \A i \in 1..Len(fromHelper) : fromHelper[i].tag = 0
    ]_vars

\* A step of the helper that leaves the write of the current command with
\* a response line, or with the helper gone because its pipe was closed.
WriteAnswered(status) ==
  IF pipesOpen
    THEN /\ helperPc' = "idle"
         /\ fromHelper' = Append(fromHelper, Line(status, hCmdSeq))
    ELSE helperPc' = "exited"

\* C2: one write command makes at most two write attempts; a failed first
\* attempt drops the cached client and handle and reconnects; the retried
\* write happens once, after the reconnect succeeded, and its outcome, ok
\* or error, is the response, with no further retry.  (An attempt that
\* never returns, and the death of the helper, end the command with no
\* response and no retry.)
C2_WriteRetriesOnce ==
  /\ [](hWriteAttempts <= 2)
  /\ [](helperPc = "w_write1" => hWriteAttempts = 0)
  /\ [](helperPc = "w_write2" => hWriteAttempts = 1 /\ hs.client # "None")
  /\ [][ /\ (helperPc = "w_write1" /\ hWriteAttempts' = 1)
              => \/ WriteAnswered("ok")
                 \/ helperPc' = "hung"
                 \/ /\ helperPc' = "ec_entry"
                    /\ hs'.client = "None"
                    /\ hs'.rx_char = "None"
                    /\ UNCHANGED fromHelper
         /\ (helperPc = "w_write2" /\ hWriteAttempts' = 2)
              => \/ WriteAnswered("ok")
                 \/ WriteAnswered("error")
                 \/ helperPc' = "hung"
         /\ (helperPc = "w_write2" /\ helperPc' # helperPc)
              => helperPc' \in {"idle", "hung", "exited"}
       ]_vars

\* The retried write failed and the error response of that command is in
\* the pipe.
C2_Witness ==
  /\ hWriteAttempts = 2
  /\ helperPc = "idle"
  /\ fromHelper # <<>>
  /\ fromHelper[Len(fromHelper)] = Line("error", hCmdSeq)

\* Commands sent to the helper and not answered yet.
InFlight == Len(toHelper) + (IF helperPc \in HelperBusyPcs THEN 1 ELSE 0)

\* C10: at any time at most one command is in flight between the caller
\* and the helper.
C10_OneCommandInFlight == InFlight <= 1

\* A step in which write raises a StandardError: the write command could
\* not be sent, or read_ok did not get an ok response.
WriteRaises ==
  mainPc \in {"wr_send", "wr_read"} /\ mutexHeld /\ ~mutexHeld' /\ mainPc' = AfterSend

\* C11: whenever write raises, @connected is false afterwards; a write
\* command is sent only while @connected is true, and @connected becomes
\* true only when read_ok accepts an ok response after a connect command
\* was sent, so the write after a failed one connects first.
C11_FailedWriteReconnects ==
  /\ [](mainPc \in {"wr_send", "wr_read"} => connected)
  /\ [][ /\ WriteRaises => ~connected'
         /\ (~connected /\ connected')
              => /\ mainPc = "conn_read"
                 /\ fromHelper # <<>>
                 /\ Head(fromHelper).status = "ok"
         /\ (mainPc = "conn_send" /\ sentSeq' = sentSeq + 1)
              => toHelper'[Len(toHelper')].type = "connect"
         /\ (mainPc = "sb_write" /\ mainPc' = "wr_send") => connected ]_vars

\* C11 witness: a write failed in the deliver before, and this deliver has
\* connected again and is about to send its write command.
C11_Witness ==
  /\ hLastError.at \in {"wr_send", "wr_read"}
  /\ mainPc = "wr_send"
  /\ connected
  /\ HelperAlive

\* The steps of a deliver call that send a command or read a response.
CallerIo == NewSend \/ NewRead \/ ConnSend \/ ConnRead \/ WrSend \/ WrRead

\* C12: with the helper process gone, a command of a deliver call never
\* blocks and ends with an error raised: sending raises before anything is
\* written (ensure_alive!), and reading at the end of the pipe raises.
C12_DeadHelperRaises ==
  /\ []((mainPc \in DeliverSendPcs \cup DeliverReadPcs /\ helperPc = "exited")
          => ENABLED CallerIo)
  /\ [][ /\ (mainPc \in {"conn_send", "wr_send"} /\ helperPc = "exited"
               /\ mainPc' \notin {mainPc, "exit_lock"})
              => /\ mainPc' = AfterSend
                 /\ ~mutexHeld'
                 /\ hLastError' = Error(mainPc, "helper_exited")
                 /\ UNCHANGED << sentSeq, toHelper >>
         /\ (mainPc = "new_send" /\ helperPc = "exited"
               /\ mainPc' \notin {mainPc, "exit_lock"})
              => /\ mainPc' = "new_cleanup"
                 /\ hLastError' = Error(mainPc, "helper_exited")
                 /\ UNCHANGED << sentSeq, toHelper, blePersist >>
         /\ (mainPc \in {"conn_read", "wr_read"} /\ helperPc = "exited"
               /\ fromHelper = <<>> /\ mainPc' \notin {mainPc, "exit_lock"})
              => /\ mainPc' = AfterSend
                 /\ ~mutexHeld'
                 /\ hLastError' = Error(mainPc, "eof") ]_vars

\* C12 witness: a deliver on the stored handle has just failed because the
\* helper had exited before the command was sent.
C12_Witness ==
  /\ hLastError = Error("conn_send", "helper_exited")
  /\ blePersist
  /\ helperPc = "exited"
  /\ mainPc = "sleep"
  /\ ~mutexHeld

\* C13: a deliver that follows a failure in which the helper had exited
\* builds a new bridge (a new helper process) instead of using the dead one.
C13_DeadHelperIsReplaced ==
  [][ ( /\ mainPc = "sb_lock"
        /\ mainPc' \notin {"sb_lock", "exit_lock"}
        /\ helperPc = "exited"
        /\ hLastError.why \in {"helper_exited", "eof"} )
        => mainPc' = "new_popen" ]_vars

\* Positions of main inside send_ble.
DeliverPcs == { "sb_lock", "new_popen", "new_tryread", "new_send", "new_read",
                "new_cleanup", "new_wait", "sb_connect", "conn_send", "conn_read",
                "sb_write", "wr_send", "wr_read", "sb_unlock" }

\* A step in which send_ble raises a StandardError to main.
DeliverRaises ==
  /\ mainPc \in DeliverPcs \ {"sb_lock", "sb_unlock"}
  /\ mutexHeld
  /\ ~mutexHeld'
  /\ mainPc' # "exit_lock"

\* A step in which generation or formatting raises a StandardError to main.
GenerateRaises ==
  \/ mainPc = "gen_cli" /\ genRaw' = "failed"
  \/ mainPc = "format" /\ mainPc' \notin {"format", "sb_lock", "exit_lock"}

\* C14: a failure of generation, formatting or delivery ends the cycle at
\* the sleep (after the initial probe: at the first cycle) with the loop
\* running, and the cycles are isolated: a deliver fails only when
\* something went wrong since the deliver before it ended, so that what an
\* earlier failing cycle left behind does not keep a later one from
\* delivering.
C14_CyclesIsolated ==
  [][ /\ (GenerateRaises \/ DeliverRaises)
           => mainPc' = (IF mainPc \in DeliverPcs THEN AfterSend ELSE "sleep")
      /\ DeliverRaises => (hFault \/ mainPc = "new_popen") ]_vars

\* C15: in a cycle in which generation failed no deliver is invoked: the
\* failure of the fallback leads to the sleep, and the next iteration starts
\* with a new call of the generator.
C15_NoDeliverAfterFailedGeneration ==
  /\ [](genRaw = "failed"
          => hSendCalls = 0 /\ mainPc \in {"sleep", "loop_top"} \cup ExitPcs)
  /\ [][ /\ (mainPc = "gen_cli" /\ genRaw' = "failed") => mainPc' = "sleep"
         /\ (mainPc = "loop_top" /\ cycles' = cycles + 1)
              => mainPc' = "gen_up" /\ genRaw' = "none" ]_vars

\* C15 witness: the service path and then the fallback have failed, the
\* cycle has ended with nothing delivered, and the loop is at the top of
\* the next iteration.
C15_Witness ==
  /\ genRaw = "failed"
  /\ hGenPaths = << "service", "cli" >>
  /\ mainPc = "loop_top"
  /\ hSendCalls = 0
  /\ cycles < MaxCycles

\* C16: in one generate call the service path comes first and the fallback
\* at most once after it, never the other way round; a failing generate
\* call has failed in the fallback, the service path hands over to the
\* fallback or returns, and the fallback never returns to the service path.
C16_ServiceThenFallback ==
  /\ [](hGenPaths \in { <<>>, << "service" >>, << "cli" >>, << "service", "cli" >> })
  /\ [](genRaw = "failed" => hGenPaths[Len(hGenPaths)] = "cli")
  /\ [][ /\ (mainPc = "gen_post" /\ mainPc' # mainPc)
              => /\ mainPc' \in {"format", "gen_cli", "exit_lock"}
                 /\ genRaw' # "failed"
         /\ (mainPc # "gen_cli" /\ mainPc' = "gen_cli")
              => mainPc \in {"gen_up", "gen_model", "gen_post"}
         /\ (mainPc = "gen_cli" /\ mainPc' # mainPc)
              => mainPc' \in {"format", "sleep", "exit_lock"} ]_vars

\* C16 witness: the service path was tried and failed, and the fallback
\* has produced the text.
C16_Witness ==
  /\ hGenPaths = << "service", "cli" >>
  /\ genRaw = "text"
  /\ mainPc = "format"

\* C17: a bridge round trip is bounded: when the helper has taken a command
\* and never writes a response, read_response still returns or raises.
C17_BridgeReadIsBounded ==
  (mainPc \in DeliverReadPcs /\ helperPc = "hung")
    => ENABLED (NewRead \/ ConnRead \/ WrRead)

(***************************************************************************)
(* Properties of the device.                                               *)
(***************************************************************************)
\* The step of loop() that checks the pending signal.
CheckStep == loopPc = "check" /\ loopPc' = "switch"

\* The step of loop() that runs the state switch.
SwitchStep == loopPc = "switch" /\ loopPc' = "poll"

\* The step of loop() that polls the channels.
PollStep == loopPc = "poll" /\ loopPc' = "check"

\* C3: a signal that is pending when loop() checks it is consumed in that
\* iteration and the switch of that iteration runs the Dissolving case,
\* whatever the state was; every Typewriter phase starts with twIdx = 0, so
\* the progress of an interrupted reveal is not resumed.
C3_SignalPreemptsToDissolving ==
  [][ /\ (CheckStep /\ kNewLivePending)
           => (~kNewLivePending' /\ state' = "STATE_DISSOLVING")
      /\ (state # "STATE_TYPEWRITER" /\ state' = "STATE_TYPEWRITER")
           => twIdx' = 0 ]_vars

\* C3 witness: the check has just consumed a signal that interrupted a
\* Typewriter phase with characters already revealed.
C3_Witness ==
  /\ loopPc = "switch"
  /\ hFrom = "STATE_TYPEWRITER"
  /\ hConsumed > 0
  /\ twIdx > 0
  /\ state = "STATE_DISSOLVING"

\* The message the claim of C4 expects a completion to extract from an
\* accumulator: the bytes up to the first newline, and what stays behind.
FirstMessage(acc) == SubSeq(acc, 1, IndexOf(acc, NL))
Remainder(acc) == SubSeq(acc, IndexOf(acc, NL) + 1, Len(acc))
IsFirstMessageOf(text, acc) ==
  \/ text = FirstMessage(acc)
  \/ text = SubSeq(acc, 1, IndexOf(acc, NL) - 1)

\* C4: when a completion check finds a terminator in the accumulator of the
\* serial or the radio channel, the live text becomes the bytes up to the
\* first newline and the bytes after it stay in the accumulator.
C4_CompletionExtractsFirstMessage ==
  [][ /\ (PollStep /\ Contains(UsbAppend(usbAccum, serialRx), NL))
           => LET acc == UsbAppend(usbAccum, serialRx)
              IN IsFirstMessageOf(gLiveText', acc) /\ usbAccum' = Remainder(acc)
      /\ (loopPc' = loopPc /\ hUnconsumed' > hUnconsumed)
           => \E v \in BleValues :
                LET acc == bleAccum \o v
                IN /\ Contains(acc, NL)
                   /\ IsFirstMessageOf(gLiveText', acc)
                   /\ bleAccum' = Remainder(acc) ]_vars

\* C5: the live text never shows part of a message whose terminator has not
\* arrived: it is empty or ends with the terminator.
C5_LiveTextNeverPartial ==
  gLiveText = <<>> \/ gLiveText[Len(gLiveText)] = NL

\* C6: one signal covers every completion since the last consumption: the
\* live text is the message that completed last, the signal is pending
\* exactly while a completion has not been consumed, and one consumption
\* restarts at Dissolving and leaves nothing pending.
C6_OneSignalLastWriteWins ==
  /\ [](gLiveText = hLastPublished)
  /\ [](kNewLivePending <=> hUnconsumed > 0)
  /\ [][ (kNewLivePending /\ ~kNewLivePending')
           => (state' = "STATE_DISSOLVING" /\ hUnconsumed' = 0) ]_vars

\* C6 witness: one check has consumed the signal of two completions.
C6_Witness ==
  /\ hConsumed >= 2
  /\ ~kNewLivePending
  /\ state = "STATE_DISSOLVING"
  /\ gLiveText = hLastPublished

\* C7: no accumulator grows past the cap.
C7_AccumulatorsCapped ==
  /\ Len(usbAccum) <= UsbAccumCap
  /\ Len(bleAccum) <= UsbAccumCap

\* C8: the Done to Idle transition clears the has-live flag, and the flag is
\* raised only by the completion of an inbound message, so after a live
\* message was shown the typewriter reveals canned text until a message
\* completes again.
C8_DoneClearsHasLive ==
  [][ /\ (state = "STATE_DONE" /\ state' = "STATE_WAIT_60S") => ~gHasLiveText'
      /\ (~gHasLiveText /\ gHasLiveText') => hUnconsumed' > hUnconsumed ]_vars

\* C8 witness: a live message was revealed to its end, Done has returned to
\* Idle, and the flag is down with no new message pending.
C8_Witness ==
  /\ state = "STATE_WAIT_60S"
  /\ gLiveText # <<>>
  /\ twIdx = Len(gLiveText)
  /\ ~gHasLiveText
  /\ ~kNewLivePending
  /\ TypewriterSrc = gCannedText[currentPhilo + 1]

OutLines == IF fmtOut = <<>> THEN <<>> ELSE Fields(fmtOut, NL)

HasLetter(s) == \E i \in 1..Len(s) : IsLetter(s[i])

\* The number of tokens of s, scanned from the left.
RECURSIVE TokensFrom(_, _)
TokensFrom(s, i) ==
  IF i > Len(s) THEN 0
  ELSE IF TokenMatch(s, i) # 0 THEN 1 + TokensFrom(s, TokenMatch(s, i) + 1)
  ELSE TokensFrom(s, i + 1)

CountTokens(s) == TokensFrom(s, 1)

\* C18: for a raw input that contains a letter (here: a letter in its first
\* sentence, so that the payload is never empty), max_tokens >= 1,
\* max_lines >= 1 and any width, the last character of the formatted payload is
\* a full stop.
C18_PayloadEndsWithFullStop ==
  (fmtPc = "out" /\ HasLetter(SentenceText(fmtRaw)))
    => (fmtOut # <<>> /\ fmtOut[Len(fmtOut)] = ".")

\* C19: the formatted payload has at most max_lines lines, none of them empty,
\* and a line longer than width is a single word.
C19_LinesFitThePanel ==
  fmtPc = "out" =>
    /\ Len(OutLines) <= fmtMaxLines
    /\ \A k \in 1..Len(OutLines) :
         /\ OutLines[k] # <<>>
         /\ Len(OutLines[k]) > fmtWidth => ~Contains(OutLines[k], " ")

\* C19 witness: a sentence of two words that do not fit on one line together
\* was wrapped into two lines, each within the width.
C19_Witness ==
  /\ fmtPc = "out"
  /\ Len(OutLines) = 2
  /\ Contains(OutLines[1], ",")
  /\ \A k \in 1..2 : Len(OutLines[k]) <= fmtWidth /\ Len(OutLines[k]) >= 2

\* C20: the number of tokens in the formatted payload never exceeds max_tokens.
C20_TokensWithinBudget ==
  fmtPc = "out" => CountTokens(fmtOut) <= fmtMaxTokens

\* C20 witness: the sentence of the input had more tokens than max_tokens and
\* the payload has exactly max_tokens of them.
C20_Witness ==
  /\ fmtPc = "out"
  /\ CountTokens(SentenceText(fmtRaw)) > fmtMaxTokens
  /\ CountTokens(fmtOut) = fmtMaxTokens

\* The raw input up to and including its first full stop.
UpToFirstStop(raw) ==
  IF Contains(raw, ".") THEN SubSeq(raw, 1, IndexOf(raw, ".")) ELSE raw

\* The raw input after its first full stop.
AfterFirstStop(raw) ==
  IF Contains(raw, ".") THEN SubSeq(raw, IndexOf(raw, ".") + 1, Len(raw)) ELSE <<>>

\* The raw input has no closing END line.
NoEndLine(raw) ==
  PopEndLine(PopBlankLines(SplitLines(raw))) = PopBlankLines(SplitLines(raw))

\* C21: the formatted payload depends only on the input up to and including
\* its first full stop: it is the payload of that prefix alone; the example
\* "Hello there. Ignore this part" with 28, 6, 19 gives the single line
\* "Hello there."; an input with no full stop is used in full, every token of
\* it that the budgets allow being in the payload.
C21_OnlyFirstSentenceCounts ==
  fmtPc = "out" =>
    /\ fmtOut = sanitize_and_format(UpToFirstStop(fmtRaw), fmtMaxTokens,
                                    fmtMaxLines, fmtWidth)
    /\ fmtRaw = HelloExample => fmtOut = SubSeq(HelloExample, 1, 12)
    /\ (/\ ~Contains(fmtRaw, ".")
        /\ NoEndLine(fmtRaw)
        /\ CountTokens(StraightQuotes(fmtRaw)) <= fmtMaxLines)
         => CountTokens(fmtOut)
              = Min(CountTokens(StraightQuotes(fmtRaw)), fmtMaxTokens)

\* C21 witness: letters follow the first full stop of the input, and the
\* payload is the sentence before it.
C21_Witness ==
  /\ fmtPc = "out"
  /\ HasLetter(AfterFirstStop(fmtRaw))
  /\ fmtRaw # HelloExample
  /\ CountTokens(fmtOut) = 1
  /\ fmtMaxTokens = 2

\* C24: in the Typewriter phase the text revealed is the live text when the
\* has-live flag is set and the current canned entry otherwise; while no
\* message has completed since the phase began, the reveal index starts at 0,
\* never passes the length of that text, grows by one at each due step, and
\* Done is entered only with the index at the end of the text.
C24_TypewriterRevealsActiveText ==
  /\ [](state = "STATE_TYPEWRITER" /\ hUnconsumed = 0 => twIdx <= Len(TypewriterSrc))
  /\ [][ /\ (state # "STATE_TYPEWRITER" /\ state' = "STATE_TYPEWRITER")
              => (twIdx' = 0 /\ SwitchStep)
         /\ (SwitchStep /\ state = "STATE_TYPEWRITER" /\ hUnconsumed = 0)
              => /\ state' \in {"STATE_TYPEWRITER", "STATE_DONE"}
                 /\ twIdx' \in {twIdx, twIdx + 1}
                 /\ (twLastAge >= twDelayMs /\ twIdx < Len(TypewriterSrc))
                      => (twIdx' = twIdx + 1 /\ state' = state)
                 /\ twIdx' = twIdx + 1
                      => (twLastAge >= twDelayMs /\ twIdx < Len(TypewriterSrc))
                 /\ state' = "STATE_DONE"
                      => (twIdx = Len(TypewriterSrc) /\ twIdx' = twIdx) ]_vars

\* C24 witness: a live message has been revealed to its last character and
\* the sequencer has entered Done, with no other message completed meanwhile.
C24_Witness ==
  /\ state = "STATE_DONE"
  /\ gHasLiveText
  /\ hUnconsumed = 0
  /\ gLiveText # <<>>
  /\ twIdx = Len(gLiveText)
  /\ Len(gLiveText) # Len(gCannedText[currentPhilo + 1])

\* C30: whenever the check consumes a new-live-text signal the has-live flag
\* is set, and the flag is taken down only by the Done case, so it stays set
\* from the consumption to the Typewriter phase of that message.
C30_ConsumedMessageIsRevealed ==
  [][ /\ (CheckStep /\ kNewLivePending) => gHasLiveText
      /\ (gHasLiveText /\ ~gHasLiveText') => (SwitchStep /\ state = "STATE_DONE") ]_vars

\* Two channels complete a message in one poll: the network request has a
\* body and the serial accumulator holds a terminator.
BothComplete ==
  /\ PollStep
  /\ httpReq # None /\ httpReq.hasPlain
  /\ Contains(UsbAppend(usbAccum, serialRx), NL)

\* C26, as claimed: when two channels complete a message in the same
\* iteration of loop(), the live text is the message of the channel that
\* completed first (the network channel, handled first).
C26_FirstCompletionWins ==
  [][ BothComplete => gLiveText' = httpReq.body ]_vars

\* C26, amended: when two channels complete a message in the same iteration
\* of loop(), the live text is the message of the channel that completed
\* last (the serial channel, handled after the network channel), and one
\* signal is pending for both.
C26_LastCompletionWins ==
  [][ BothComplete
        => /\ gLiveText' = UsbAppend(usbAccum, serialRx)
           /\ gHasLiveText'
           /\ kNewLivePending'
           /\ httpStatus' = 200 ]_vars

\* C26 witness: the network and the serial channel have completed in one
\* poll, and the live text is the serial message.
C26_Witness ==
  /\ loopPc = "check"
  /\ hUnconsumed = 2
  /\ rxLeft = MaxRxIngest - 2
  /\ httpStatus = 200
  /\ bleAccum = <<>>
  /\ gLiveText = << "b", NL >>

\* A write to the radio characteristic that completes no message: the
\* accumulator has grown and holds no terminator.
RadioFragment ==
  /\ Len(bleAccum') > Len(bleAccum)
  /\ ~Contains(bleAccum', NL)

StartupErrorUnread == \E i \in 1..Len(fromHelper) : fromHelper[i] = Line("error", 0)

\* C28: when the helper prints an error response at start-up, the
\* construction of the handle fails with that error (the response read is
\* the reason of the failure, it is not left unread behind another error),
\* the pipes are closed before the failure is raised, and no handle is kept.
C28_StartupErrorSurfaces ==
  /\ (mainPc \in {"new_cleanup", "new_wait"} /\ StartupErrorUnread)
       => hLastError.why = "not_ok"
  /\ mainPc = "new_wait" => ~pipesOpen
  /\ mainPc \in {"new_cleanup", "new_wait"} => ~blePersist


\* The positions of at_exit after close sent, or failed to send, its command.
AfterClosePcs == {"cl_read", "cl_cleanup", "cl_wait", "exit_unlock",
                  "exit_serial", "exited"}

\* C29: at shutdown close is called on the bridge handle when one exists,
\* and an open serial handle is closed; a failure of either is swallowed,
\* and a failed close of the bridge does not keep the serial block from
\* running.  When at_exit is over the handle is not connected and is
\* dropped, and after its close no command is sent and nothing delivered.
C29_ShutdownClosesHandles ==
  /\ [](mainPc = "exited" =>
          /\ hExit.handle => hExit.closeTried
          /\ hExit.serTried
          /\ hExit.serOpen /\ ~hExit.serFailed => serHandle = "closed"
          /\ serHandle = "open" => hExit.serFailed
          /\ ~connected
          /\ ~blePersist)
  /\ [][(mainPc \in AfterClosePcs) =>
          (sentSeq' = sentSeq /\ hSendCalls' = hSendCalls)]_vars

\* The close command of the bridge failed and at_exit still ended with the
\* serial block run.
C29_Witness ==
  mainPc = "exited" /\ hExit.handle /\ hExit.closeFailed /\ hExit.serTried

\* An open serial handle was closed by at_exit.
C29_SerialClosed ==
  mainPc = "exited" /\ hExit.serOpen /\ serHandle = "closed"


\* The values of a sequence.
Range(s) == { s[i] : i \in 1..Len(s) }

\* C22: for a surface of N >= 1 blocks, the blocks the dissolve has cleared
\* when it returns are a permutation of 0..N-1, every block cleared exactly
\* once, whatever the shuffle drew.
C22_EveryBlockClearedOnce ==
  dissolvePc = "returned" =>
    /\ Len(cleared) = DissolveN
    /\ Range(cleared) = 0..(DissolveN - 1)

\* The same with the buffer allocated: the clearing loop ran.
ShuffledOrderIsPermutation ==
  /\ \A a, b \in 1..Len(cleared) : cleared[a] = cleared[b] => a = b
  /\ (dissolvePc = "returned" /\ clearK > 0) =>
       /\ Len(cleared) = DissolveN
       /\ Range(cleared) = 0..(DissolveN - 1)

\* C23: the sequencer goes from Dissolving to PostDissolvePause only when
\* every block of the surface has been cleared.
C23_LeavesDissolvingAfterClearing ==
  [][(state = "STATE_DISSOLVING" /\ state' = "STATE_POST_DISSOLVE_PAUSE") =>
       (\A b \in 0..(DissolveN - 1) : b \in Range(cleared))]_vars

\* C25: when Done is left for Idle, a catalog of more than one entry has a
\* current entry other than the previous one, and a catalog of exactly one
\* entry has had no draw and keeps its entry; and Done is always left for
\* Idle in the end.
C25_DoneLeavesForIdle ==
  /\ [][(state = "STATE_DONE" /\ state' = "STATE_WAIT_60S") =>
          /\ numPhilos > 1 => (currentPhilo' # prev /\ hDrew)
          /\ numPhilos = 1 => (~hDrew /\ currentPhilo' = prev)]_vars
  /\ (state = "STATE_DONE") ~> (state = "STATE_WAIT_60S")

\* A build with one entry has left Done for Idle.
C25_Witness ==
  /\ numPhilos = 1
  /\ state = "STATE_WAIT_60S"
  /\ loopPc = "poll"
  /\ ~hDrew

\* A build with several entries has left Done after a draw.
C25_Redrawn ==
  /\ numPhilos > 1
  /\ state = "STATE_WAIT_60S"
  /\ currentPhilo # prev
  /\ hDrew


\* C32: after a failed characteristic write the helper reconnects once, with
\* one discovery and one connection attempt, before it writes again; when
\* that connection attempt fails the command ends with an error and there
\* is no second discovery and no second connection attempt.
C32_OneReconnectAfterFailedWrite ==
  hret = "write2" => helperPc \notin {"ec_discover2", "ec_connect2"}


\* The number of commas of s.
RECURSIVE CountCommas(_)
CountCommas(s) ==
  IF s = <<>> THEN 0
  ELSE (IF Head(s) = "," THEN 1 ELSE 0) + CountCommas(Tail(s))

\* The part of s from its first letter to its last letter.
LetterSpan(s) ==
  IF ~HasLetter(s) THEN <<>>
  ELSE LET first == CHOOSE i \in 1..Len(s) :
                      IsLetter(s[i]) /\ \A j \in 1..(i - 1) : ~IsLetter(s[j])
           last == CHOOSE i \in 1..Len(s) :
                     IsLetter(s[i]) /\ \A j \in (i + 1)..Len(s) : ~IsLetter(s[j])
       IN SubSeq(s, first, last)

\* The raw input is made of words, spaces and commas only.
WordsAndCommas(raw) ==
  \A i \in 1..Len(raw) : IsLetter(raw[i]) \/ raw[i] \in {" ", ","}

\* The lines of the wrapped text before the cut to max_lines.
WrappedLines ==
  SplitLines(wrap_to_width(
    EndSentence(SanitizeTokens(SentenceText(fmtRaw), fmtMaxTokens)), fmtWidth))

\* C33 as stated: every comma and every full stop between two tokens of the
\* payload has a space (or a line break) before it and after it, and an
\* input of k <= max_tokens words with commas between them keeps its k
\* words.
C33_PunctuationSpacedBothSides ==
  fmtPc = "out" =>
    /\ \A i \in 2..(Len(fmtOut) - 1) :
         (/\ fmtOut[i] \in {",", "."}
          /\ HasLetter(SubSeq(fmtOut, 1, i - 1))
          /\ HasLetter(SubSeq(fmtOut, i + 1, Len(fmtOut))))
           => /\ fmtOut[i - 1] \in {" ", NL}
              /\ fmtOut[i + 1] \in {" ", NL}
    /\ (WordsAndCommas(fmtRaw) /\ CountTokens(fmtRaw) <= fmtMaxTokens)
         => CountTokens(fmtOut) = CountTokens(fmtRaw)

\* C33, amended: a comma or a full stop of the payload follows a token or
\* another mark with no space before it, and a space, a line break, another
\* mark or the end of the payload comes after it; the commas use no token
\* budget: an input of k <= max_tokens words with commas between them,
\* whose wrapped text has at most max_lines lines, keeps its k words and
\* every comma between its first and its last word.
C33_PunctuationFollowsToken ==
  fmtPc = "out" =>
    /\ \A i \in 1..Len(fmtOut) :
         fmtOut[i] \in {",", "."} =>
           /\ i > 1
           /\ fmtOut[i - 1] \notin {" ", NL}
           /\ i < Len(fmtOut) => fmtOut[i + 1] \in {" ", NL, ",", "."}
    /\ (/\ WordsAndCommas(fmtRaw)
        /\ CountTokens(fmtRaw) <= fmtMaxTokens
        /\ Len(WrappedLines) <= fmtMaxLines)
         => /\ CountTokens(fmtOut) = CountTokens(fmtRaw)
            /\ CountCommas(fmtOut) = CountCommas(LetterSpan(fmtRaw))

\* C33 witness: two words with a comma between them, both in the payload
\* with the comma.
C33_Witness ==
  /\ fmtPc = "out"
  /\ WordsAndCommas(fmtRaw)
  /\ CountTokens(fmtRaw) = 2
  /\ CountTokens(fmtOut) = 2
  /\ CountCommas(fmtOut) >= 1


\* C37: formatting is idempotent: the format of a formatted payload, with
\* the same max_tokens, max_lines and width, is that payload.
C37_FormatIsIdempotent ==
  fmtPc = "out" =>
    sanitize_and_format(fmtOut, fmtMaxTokens, fmtMaxLines, fmtWidth) = fmtOut

\* The same for the payloads that lost no line to the cut to max_lines.
IdempotentWhenUncut ==
  (fmtPc = "out" /\ Len(WrappedLines) <= fmtMaxLines) =>
    sanitize_and_format(fmtOut, fmtMaxTokens, fmtMaxLines, fmtWidth) = fmtOut


\* The device completed a message in this step.
Completes == hUnconsumed' = hUnconsumed + 1

\* main wrote its payload to the serial port, every byte of it has reached
\* the device and loop() has polled since.
PayloadArrived ==
  /\ mainPc = "sleep"
  /\ hLastError = Error("none", "none")
  /\ serWire = <<>>
  /\ serialRx = <<>>
  /\ loopPc # "poll"

\* C31: over the serial transport a payload written by the background
\* process becomes exactly one LiveMessage whose text is the whole payload:
\* every message the device completes is the payload, and once all bytes
\* have been polled the payload is the last message and nothing of it is
\* left in the accumulator.
C31_SerialPayloadIsOneMessage ==
  /\ [][Completes => gLiveText' = payload]_vars
  /\ [](PayloadArrived => (hLastPublished = payload /\ usbAccum = <<>>))


(***************************************************************************)
(* The payload that main hands to a transport.                             *)
(***************************************************************************)

\* The radio write is skipped: send_ble leaves the test of payload.empty?
\* for the release of the mutex.
SkipsRadioWrite == mainPc = "sb_write" /\ mainPc' = "sb_unlock"

\* C34: every payload that a cycle of the generation loop hands to a
\* transport is non-empty and ends with the newline terminator, also when
\* the formatted text is empty; it therefore holds the newline that completes
\* a message on the device, and send_ble skips the radio write only for the
\* empty probe of the start-up.
C34_HandedPayloadEndsWithNewline ==
  /\ [](mainRet = "cycle" =>
          /\ payload # <<>>
          /\ payload[Len(payload)] = NL
          /\ IndexOf(payload, NL) # 0
          /\ ~payloadEmpty)
  /\ [][SkipsRadioWrite => (mainRet = "probe" /\ payload = <<>>)]_vars

\* A cycle whose formatted text is empty has sent its payload, the lone
\* newline, to the helper for the radio write.
C34_Witness ==
  /\ mainRet = "cycle"
  /\ mainPc = "wr_read"
  /\ fmtRaw = <<>>
  /\ payload = << NL >>

\* A cycle over serial whose formatted text is not empty has written its
\* payload.
C34_SerialWritten ==
  /\ mainRet = "cycle"
  /\ transport = "USB"
  /\ fmtRaw # <<>>
  /\ serWire = payload
  /\ Len(payload) > 1


(***************************************************************************)
(* The accesses of the block dissolve.                                     *)
(***************************************************************************)

\* The largest value of the element type of idx, uint16_t.
UInt16Max == 65535

\* C35: in the block dissolve every index used to read or write idx lies in
\* 0..N-1 and every block index fits the uint16_t elements, on every surface
\* and with every block size; on a surface of no blocks no step accesses idx.
C35_DissolveIndicesInRange ==
  /\ hAccessed \subseteq 0..(DissolveN - 1)
  /\ DissolveN = 0 => hAccessed = {}
  /\ dissolvePc \in {"shuffle", "clear"} =>
       \A b \in 0..(DissolveN - 1) : b <= UInt16Max /\ idx[b + 1] <= UInt16Max

\* The same on the surfaces of one block or more.
IndicesInRangeWithBlocks ==
  DissolveN >= 1 => C35_DissolveIndicesInRange

\* The shuffle loop ran on a surface of no blocks.
OverranNoBlocks ==
  DissolveN = 0 /\ hAccessed # {} /\ dissolvePc \in {"crashed", "returned"}


(***************************************************************************)
(* The rectangles of the block dissolve.                                   *)
(***************************************************************************)

\* The rectangles fillRect was called with, in order.
ClearedRects == [k \in 1..Len(cleared) |-> BlockRect(cleared[k])]

\* The rectangle lies inside [0, w) x [0, h) of the surface.
InsideSurface(r) ==
  /\ 0 <= r.x /\ r.x + r.w <= dissolveW
  /\ 0 <= r.y /\ r.y + r.h <= dissolveH

\* Two rectangles share a pixel.
Overlap(r, q) ==
  /\ r.x < q.x + q.w /\ q.x < r.x + r.w
  /\ r.y < q.y + q.h /\ q.y < r.y + r.h

\* The pixel lies in the rectangle.
InRect(px, py, r) ==
  /\ r.x <= px /\ px < r.x + r.w
  /\ r.y <= py /\ py < r.y + r.h

\* The rectangles cleared lie inside the surface, are pairwise disjoint and
\* cover every pixel.
RectsTileSurface ==
  /\ \A k \in 1..Len(cleared) : InsideSurface(ClearedRects[k])
  /\ \A a, b \in 1..Len(cleared) :
       a < b => ~Overlap(ClearedRects[a], ClearedRects[b])
  /\ \A px \in 0..(dissolveW - 1), py \in 0..(dissolveH - 1) :
       \E k \in 1..Len(cleared) : InRect(px, py, ClearedRects[k])

\* C36: for every width and height of 1 or more and every block size of 1 or
\* more, sizes that do not divide the width or the height among them, the
\* rectangles a block dissolve has cleared when it returns all lie inside
\* the surface, are pairwise disjoint and together cover every pixel.
C36_ClearedRectsTileSurface ==
  (dissolvePc = "returned" /\ dissolveW >= 1 /\ dissolveH >= 1) =>
    RectsTileSurface

\* The same when the buffer was allocated and no block starts beyond the
\* largest int16_t.
TilesWhenAllocatedAndNarrow ==
  (/\ dissolvePc = "returned" /\ dissolveW >= 1 /\ dissolveH >= 1
   /\ clearK > 0
   /\ dissolveW <= Int16Max /\ dissolveH <= Int16Max) =>
    RectsTileSurface

\* While clearing, every rectangle so far lies inside a narrow surface and
\* no two overlap.
ClearedSoFarDisjointInside ==
  (dissolveW <= Int16Max /\ dissolveH <= Int16Max) =>
    /\ \A k \in 1..Len(cleared) : InsideSurface(ClearedRects[k])
    /\ \A a, b \in 1..Len(cleared) :
         a < b => ~Overlap(ClearedRects[a], ClearedRects[b])

\* A size that does not divide the width was cleared whole: the last column
\* of blocks is narrower than the block.
ClippedBlockCleared ==
  /\ dissolvePc = "returned" /\ clearK > 0
  /\ dissolveW % block # 0
  /\ \E k \in 1..Len(cleared) : ClearedRects[k].w < block
  /\ RectsTileSurface

\* On the wide surface a rectangle was cleared whose bx is negative.
WideBlockOutside ==
  /\ << dissolveW, dissolveH, block >> = WideSurface
  /\ \E k \in 1..Len(cleared) : ClearedRects[k].x < 0

====
